---- MODULE Spec2Model ----
(***************************************************************************)
(* A model of the mntime benchmark session (src/src/app.rs, src/src/cmd.rs) *)
(* Three tasks: the input task (run), the scheduler task (run_app) and the  *)
(* presentation task (view_app), two mpsc channels, the shared view model   *)
(* and the child processes owned by the TimeCmd backends.                   *)
(***************************************************************************)
EXTENDS Integers, Sequences, FiniteSets, TLC

\* Bounds of the model.
MaxRuns == 3
MaxTargets == 2
MaxLoops == 2
MaxQuit == 1
MaxCalls == 5
MaxCode == 1
MaxSamples == 5
MaxNew == 2
MaxTokens == 5

\* proc_exit codes and the exit status of a panicking Rust process.
ExitSuccess == 0
ExitFailure == 1
ExitPanic == 101

VARIABLES
    cli,            \* CliArgs: use_builtin_only, no_bsd, no_gnu, runs, loops, targets
    upc,            \* position of the scheduler task (run_app)
    fam,            \* family being probed by prepare_time_commands
    fallback_sh,    \* local of prepare_time_commands
    fallback_time,  \* local of prepare_time_commands
    cmd,            \* the candidate being probed (a TimeCmd, or NoCmd)
    commands,       \* Vec<Rc<RefCell<TimeCmd>>> of usable backends
    orphan,         \* child process whose TimeCmd handle was dropped
    target_index,   \* loop variable of run_app
    n,              \* run index of run_app
    time_cmd,       \* position in commands of the backend of the current run
    running,        \* local of run_app
    ret,            \* return value of run_app
    model,          \* SharedViewModel
    inbox,          \* UpdateMsg::Quit messages in the scheduler's channel
    draw_q,         \* DrawMsg channel, FIFO
    observed,       \* events handled so far by view_app, in order
    measuring,      \* DrawState.measuring
    dpc,            \* position of the presentation task
    ipc,            \* position of the input task (body of run); it starts
                    \* in its first poll, the scheduler just spawned
    keys,           \* cancel keystrokes read so far
    exit_status,    \* exit status of the process: <<>> until it exits
    sent,           \* events sent so far by run_app, in order
    quit_seen,      \* where wait_recv_quit returned true: "discovery", "run"
    run_error,      \* error met by a run: "spawn", "parse", else "none"
    kills,          \* positions in commands on which kill() was called
    constructed,    \* candidates constructed by prepare_time_commands, in
                    \* order; its history ends when benchmarking starts
    quit_disc,      \* a Quit was delivered while discovery was in progress
    quit_run,       \* target measured when a Quit was delivered mid-run, else -1
    target_exit,    \* exit code of the target commands of the session
    tc,             \* cmd.rs alone: a TimeCmd driven through its methods
    tc_ret,         \* cmd.rs alone: the last method called on tc and its result
    tc_out,         \* cmd.rs alone: the diagnostics of the self-test of tc
    item,           \* cmd.rs alone: arguments of meas_item_unit_value
    text,           \* cmd.rs alone: <<>>, then the name and the formatted value
    stats,          \* stats.rs alone: a Stats
    supplied,       \* stats.rs alone: the samples given to new and add, in order
    call,           \* a function alone: the function and its arguments
    returned,       \* a function alone: <<>>, then what the call returned
    frame           \* <<>>, then what the last frame with progress drew

\* The variables of the benchmark session.
app_vars == <<cli, upc, fam, fallback_sh, fallback_time, cmd, commands, orphan,
              target_index, n, time_cmd, running, ret, model, inbox, draw_q,
              observed, measuring, dpc, ipc, keys, exit_status, sent, quit_seen,
              run_error, kills, constructed, quit_disc, quit_run, target_exit>>
\* The variables of the specifications of cmd.rs and stats.rs alone.
cmd_vars == <<tc, tc_ret, tc_out>>
meas_vars == <<item, text>>
stats_vars == <<stats, supplied>>
fn_vars == <<call, returned>>
view_vars == <<frame>>
unit_vars == <<cmd_vars, meas_vars, stats_vars, fn_vars, view_vars>>

vars == <<app_vars, unit_vars>>

sched_vars == <<upc, fam, fallback_sh, fallback_time, cmd, commands, orphan,
                target_index, n, time_cmd, running, ret, model, sent,
                quit_seen, run_error, kills, constructed>>
disc_vars == <<fam, fallback_sh, fallback_time, cmd, commands, constructed>>
bench_vars == <<target_index, n, time_cmd, running, model>>
draw_vars == <<observed, measuring, dpc>>
input_vars == <<ipc, keys, exit_status>>
ghost_quit == <<quit_disc, quit_run>>

NoCmd == [cmd_type |-> "none"]
NoRet == [code |-> "none", msg |-> "none"]

\* ---------------------------------------------------------------- cmd.rs
\* TimeCmd::try_new_with_command: the self-test child has been spawned.
\* The shell and the command line of the backend are kept in `constructed`.
\* process, stderr, code and status_line are the std::process::Child: its
\* state ("running"; "exited"; "signalled" once kill() was called on it and
\* until it has died; "killed" then), what is left to read on its stderr pipe ("none" while it runs, then
\* diagnostics that parse to some entries, "ok", or to none, "empty"), the
\* exit code of a child that exited, and the value of an `Exit status` line
\* among the diagnostics.  `missing` tells that the shell of the child finds
\* no time program to run: it is known once the self-test has exited.
NewTimeCmd(type) ==
    [cmd_type |-> type, ready_status |-> "Checking", process |-> "running",
     stderr |-> "none", meas_report |-> <<>>, job |-> "selftest",
     code |-> <<>>, status_line |-> <<>>, missing |-> FALSE]

\* TimeCmd::is_finished: try_wait() has a status to return.
is_finished(c) == c.process \in {"exited", "killed"}

\* stderr(): the pipe is read to its end, nothing is left for a later read.
Drained(c) == [c EXCEPT !.stderr = "empty", !.status_line = <<>>]

\* TimeCmd::ready_status: the backend after the call; the value returned is
\* its ready_status field.
ready_statusEagerBug(c) ==
    IF c.ready_status = "Checking"
    THEN [Drained(c) EXCEPT !.ready_status =
              IF is_finished(c) /\ c.stderr # "ok" THEN "Error" ELSE "Ready"]
    ELSE c
ready_statusBug(c) ==
    IF is_finished(c) /\ c.stderr # "empty"
    THEN [Drained(c) EXCEPT !.ready_status =
              IF c.stderr = "ok" THEN "Ready" ELSE "Error"]
    ELSE c
ready_status(c) ==
    IF c.ready_status = "Checking" /\ is_finished(c)
    THEN [Drained(c) EXCEPT !.ready_status =
              IF c.stderr = "ok" THEN "Ready" ELSE "Error"]
    ELSE c

\* TimeCmd::execute after a successful spawn.
Executed(c) ==
    [c EXCEPT !.meas_report = <<>>, !.process = "running",
              !.stderr = "none", !.job = "measure",
              !.code = <<>>, !.status_line = <<>>]

\* ExitStatus::code().unwrap_or_default() of the child.
OsExitCode(c) == IF c.code = <<>> THEN 0 ELSE c.code[1]

\* The parser of try_new_gnu_time inserts the value of an `Exit status` line
\* as MeasItem::ExitStatus; the parsers of the other families have no such
\* entry.  The other entries of the report are left out.
ParsedExitStatus(c) == IF c.cmd_type = "gnu" THEN c.status_line ELSE <<>>

\* TimeCmd::get_report, lines 500-505: the ExitStatus entry of the report.
ReportExitStatus(c) ==
    IF ParsedExitStatus(c) = <<>> THEN OsExitCode(c) ELSE ParsedExitStatus(c)[1]

\* TimeCmd::get_report: the error ("none" on Ok) and the backend after the call.
get_report(c) ==
    IF ~is_finished(c) THEN [err |-> "NotFinished", cmd |-> c]
    ELSE IF c.meas_report # <<>> THEN [err |-> "none", cmd |-> c]
    ELSE IF c.stderr # "ok" THEN [err |-> "ParseError", cmd |-> Drained(c)]
    ELSE [err |-> "none",
          cmd |-> [Drained(c) EXCEPT !.meas_report =
                       <<[ExitStatus |-> ReportExitStatus(c)]>>]]

\* TimeCmd::kill: SIGKILL is sent to the child, which is the shell, and
\* nothing waits for it; a child that already exited stays so.
Killed(c) ==
    IF c.process = "running"
    THEN [c EXCEPT !.process = "signalled"]
    ELSE c

\* The signalled shell has died: it has no exit code.  A shell that had
\* forked the time command (dash) leaves it running, and it writes its
\* diagnostics at its end (out = "ok", with the line of GNU time); a shell
\* that had replaced itself by the time command (bash) leaves none.
Died(c, out, line) ==
    [c EXCEPT !.process = "killed", !.stderr = out, !.code = <<>>,
              !.status_line = IF out = "ok" THEN line ELSE <<>>]

\* ------------------------------------------- cmd.rs: measurement items
\* MeasItem; Unknown stands for every Unknown(name).
MeasItems ==
    {"ExitStatus", "Real", "User", "Sys", "CpuUsage", "AvgSharedText",
     "AvgUnsharedData", "AvgStack", "AvgTotal", "MaxResident", "AvgResident",
     "MajorPageFault", "MinorPageFault", "VoluntaryCtxSwitch",
     "InvoluntaryCtxSwitch", "Swap", "BlockInput", "BlockOutput", "MsgSend",
     "MsgRecv", "SignalRecv", "Page", "Instruction", "Cycle", "PeakMemory",
     "Unknown"}

\* meas_item_name: the label of the kind and the loops_str that the arm of
\* the kind appends to it (<<>> for "", <<M>> for "/M").
meas_item_name(kind, loops) ==
    LET loops_str == IF loops <= 1 THEN <<>> ELSE <<loops>> IN
    IF kind \in {"Real", "User", "Sys", "MajorPageFault", "MinorPageFault",
                 "VoluntaryCtxSwitch", "InvoluntaryCtxSwitch", "Swap",
                 "BlockInput", "BlockOutput", "MsgSend", "MsgRecv",
                 "SignalRecv"}
    THEN [label |-> kind, tag |-> loops_str]
    ELSE [label |-> kind, tag |-> <<>>]

\* An f64 that is not negative is int + 0.frac: the integer part, and the
\* bits after the binary point up to the last 1.  It has at most
\* MANTISSA_DIGITS significant bits.
MANTISSA_DIGITS == 53
F(int, frac) == [int |-> int, frac |-> frac]

RECURSIVE BitLen(_)
BitLen(i) == IF i = 0 THEN 0 ELSE 1 + BitLen(i \div 2)
\* The places of the bits of b that are 1.
Ones(b) == {i \in 1..Len(b) : b[i] = 1}
First(S) == CHOOSE i \in S : \A j \in S : i <= j
Last(S) == CHOOSE i \in S : \A j \in S : j <= i
LeadingZeros(b) == IF Ones(b) = {} THEN Len(b) ELSE First(Ones(b)) - 1
Trim(b) == IF Ones(b) = {} THEN <<>> ELSE SubSeq(b, 1, Last(Ones(b)))
\* The bits b plus one unit in the last place, and the carry out of them.
Succ(b) ==
    LET zeros == (1..Len(b)) \ Ones(b) IN
    IF zeros = {}
    THEN [bits |-> [i \in 1..Len(b) |-> 0], carry |-> 1]
    ELSE [bits |-> [i \in 1..Len(b) |->
                       IF i < Last(zeros) THEN b[i]
                       ELSE IF i = Last(zeros) THEN 1 ELSE 0],
          carry |-> 0]

\* The rounding of every f64 operation: the exact result int + 0.frac, plus
\* a non-zero rest below frac when sticky, to the nearest value of
\* MANTISSA_DIGITS significant bits, a tie to the even one.
RoundTiesEven(int, frac, sticky) ==
    LET keep == IF int > 0 THEN MANTISSA_DIGITS - BitLen(int)
                ELSE MANTISSA_DIGITS + LeadingZeros(frac) IN
    IF Len(frac) <= keep THEN F(int, Trim(frac))
    ELSE LET kept == SubSeq(frac, 1, keep)
             rest == sticky \/ \E i \in (keep + 2)..Len(frac) : frac[i] = 1
             odd == IF keep = 0 THEN int % 2 = 1 ELSE kept[keep] = 1
             s == Succ(kept) IN
         IF frac[keep + 1] = 1 /\ (rest \/ odd)
         THEN F(int + s.carry, Trim(s.bits))
         ELSE F(int, Trim(kept))

\* The bits b in groups of eight, each group a number below 256, and back.
Bit(b, i) == IF i <= Len(b) THEN b[i] ELSE 0
Bytes(b, len) ==
    [k \in 1..len |->
        128 * Bit(b, 8 * k - 7) + 64 * Bit(b, 8 * k - 6)
        + 32 * Bit(b, 8 * k - 5) + 16 * Bit(b, 8 * k - 4)
        + 8 * Bit(b, 8 * k - 3) + 4 * Bit(b, 8 * k - 2)
        + 2 * Bit(b, 8 * k - 1) + Bit(b, 8 * k)]
Bits(l) ==
    [i \in 1..(8 * Len(l)) |->
        (l[(i - 1) \div 8 + 1] \div 2 ^ (7 - ((i - 1) % 8))) % 2]

\* x * c for an integer c: exact, from the last group of the fraction up
\* with the carry of the groups below, then rounded.
RECURSIVE MulFrom(_, _, _, _, _)
MulFrom(l, c, k, carry, acc) ==
    IF k = 0 THEN [bytes |-> acc, carry |-> carry]
    ELSE MulFrom(l, c, k - 1, (l[k] * c + carry) \div 256,
                 <<(l[k] * c + carry) % 256>> \o acc)
Scaled(x, c) ==
    LET len == (Len(x.frac) + 7) \div 8
        m == MulFrom(Bytes(x.frac, len), c, len, 0, <<>>) IN
    RoundTiesEven(x.int * c + m.carry, Bits(m.bytes), FALSE)

\* x / c for an integer c: long division from the first group of the
\* fraction down with the remainder of the groups above, to twice the bits
\* of a mantissa, the last remainder being the rest, then rounded (for a
\* c below 2^23 and a quotient that is zero or above 2^-58).
RECURSIVE DivFrom(_, _, _, _, _)
DivFrom(l, c, k, r, acc) ==
    IF k > Len(l) THEN [bytes |-> acc, rem |-> r]
    ELSE DivFrom(l, c, k + 1, (r * 256 + l[k]) % c,
                 Append(acc, (r * 256 + l[k]) \div c))
Over(x, c) ==
    LET len == (2 * MANTISSA_DIGITS + 7) \div 8
        d == DivFrom(Bytes(x.frac, len), c, 1, x.int % c, <<>>) IN
    RoundTiesEven(x.int \div c, Bits(d.bytes), d.rem # 0)

RECURSIVE Pow10(_)
Pow10(k) == IF k <= 0 THEN 1 ELSE 10 * Pow10(k - 1)

\* str::parse::<f64> of the decimal digits / 10^scale, and the literal of
\* that decimal: the f64 nearest to it.
Parse(digits, scale) == Over(F(digits, <<>>), Pow10(scale))

\* x < y
FracLess(a, b) ==
    LET A(i) == IF i <= Len(a) THEN a[i] ELSE 0
        B(i) == IF i <= Len(b) THEN b[i] ELSE 0
        differ == {i \in 1..(Len(a) + Len(b)) : A(i) # B(i)} IN
    differ # {} /\ A(First(differ)) < B(First(differ))
Less(x, y) == x.int < y.int \/ (x.int = y.int /\ FracLess(x.frac, y.frac))

\* f64::floor, as an integer, and x - x.floor(), which is exact.
Floor(x) == x.int
Fract(x) == F(0, x.frac)
\* x - i for an integer i <= x, and x % i: both exact.
Minus(x, i) == F(x.int - i, x.frac)
Rem(x, i) == F(x.int % i, x.frac)
\* f64::round of a non-negative value: halves go away from zero.
Round(x) == x.int + (IF x.frac # <<>> /\ x.frac[1] = 1 THEN 1 ELSE 0)
\* v.log10().floor() of a value v >= 1: one less than the number of decimal
\* digits of its integer part, k - 1, except that the log10 of the C library
\* rounds to k for the last f64s below 10^k: for none below 10, the last one
\* below 100, the last 5 below 1000, and so on as listed in `last`.  `below`
\* counts the f64s from v up to the next integer, 32 standing for more.
RECURSIVE Digits(_)
Digits(i) == IF i < 10 THEN 1 ELSE 1 + Digits(i \div 10)
Log10Floor(x) ==
    LET k == Digits(Floor(x))
        low == MANTISSA_DIGITS - BitLen(Floor(x))
        bit(i) == IF i <= Len(x.frac) THEN x.frac[i] ELSE 0
        tail == 16 * bit(low - 4) + 8 * bit(low - 3) + 4 * bit(low - 2)
                + 2 * bit(low - 1) + bit(low)
        below == IF \A i \in 1..(low - 5) : bit(i) = 1 THEN 32 - tail ELSE 32
        last == <<0, 1, 5, 2, 6, 9, 5, 6, 18>>
    IN  IF k <= Len(last) /\ Floor(x) + 1 = Pow10(k) /\ below <= last[k]
        THEN k ELSE k - 1

\* A printed number: digits / 10^scale.  `{}` prints an f64 as the shortest
\* decimal that parses back to it, without trailing zeros.
Whole(i) == [digits |-> i, scale |-> 0]
RECURSIVE Shortest(_)
Shortest(d) ==
    IF d.scale > 0 /\ d.digits % 10 = 0
    THEN Shortest([digits |-> d.digits \div 10, scale |-> d.scale - 1])
    ELSE d

SIG_DIGS == 3
KB == 1024

\* round_precision, as printed by `{}`: (val * rank).round() / rank is the
\* f64 nearest to k / 10^precision for the integer k that round() returns,
\* and prints as that decimal.
round_precision(val, precision) ==
    IF precision <= 0
    THEN Whole(Round(val))
    ELSE Shortest([digits |-> Round(Scaled(val, Pow10(precision))),
                   scale |-> precision])

\* meas_item_unit_value, lines 104-130: the arm of the time kinds, v given.
FormatTime(v) ==
    IF Less(v, Parse(1, 3))
    THEN [unit |-> "ns",
          parts |-> <<round_precision(Scaled(v, 1000000), SIG_DIGS)>>]
    ELSE IF Floor(v) < 1
    THEN LET vv == Scaled(v, 1000) IN
         [unit |-> "ms",
          parts |-> <<round_precision(vv, SIG_DIGS - Log10Floor(vv))>>]
    ELSE IF Floor(v) < 60
    THEN [unit |-> "sec",
          parts |-> <<round_precision(v, SIG_DIGS - Log10Floor(v))>>]
    ELSE IF Floor(v) < 60 * 60
    THEN LET min == Floor(Over(v, 60)) IN
         [unit |-> "min:sec",
          parts |-> <<Whole(min),
                      round_precision(Rem(v, 60), SIG_DIGS - Log10Floor(v))>>]
    ELSE LET hour == Floor(Over(Over(v, 60), 60))
             min == Floor(Over(Minus(v, hour * 60 * 60), 60)) IN
         [unit |-> "hour:min:sec",
          parts |-> <<Whole(hour), Whole(min),
                      round_precision(Rem(v, 60), SIG_DIGS - Log10Floor(v))>>]

\* meas_item_unit_value, lines 142-166: the arm of the size kinds.  A
\* division by GB or TB is two exact divisions by powers of two.
FormatSize(val) ==
    IF Floor(val) < KB
    THEN [unit |-> "byte", parts |-> <<round_precision(val, SIG_DIGS)>>]
    ELSE IF Floor(val) < KB * KB
    THEN LET v == Over(val, KB) IN
         [unit |-> "KiB",
          parts |-> <<round_precision(v, SIG_DIGS - Log10Floor(v))>>]
    ELSE IF Floor(val) < KB * KB * KB
    THEN LET v == Over(val, KB * KB) IN
         [unit |-> "MiB",
          parts |-> <<round_precision(v, SIG_DIGS - Log10Floor(v))>>]
    ELSE IF Floor(Over(Over(val, KB * KB), KB)) < KB
    THEN LET v == Over(Over(val, KB * KB), KB) IN
         [unit |-> "GiB",
          parts |-> <<round_precision(v, SIG_DIGS - Log10Floor(v))>>]
    ELSE LET v == Over(Over(val, KB * KB), KB * KB) IN
         [unit |-> "TiB",
          parts |-> <<round_precision(v, SIG_DIGS - Log10Floor(v))>>]

\* meas_item_unit_value, lines 180-192 and 200-212: the integer part, and
\* the rounded decimals unless they print as one character.
FormatDigit(v) ==
    LET precision == IF Floor(v) < 1 THEN SIG_DIGS
                     ELSE SIG_DIGS - Log10Floor(v)
        int == Floor(v)
        dec == round_precision(Fract(v), precision) IN
    [unit |-> "",
     parts |-> IF dec.scale = 0 THEN <<Whole(int)>> ELSE <<Whole(int), dec>>]

\* meas_item_unit_value
meas_item_unit_valueBug(item_kind, val, loops) ==
    IF item_kind \in {"Real", "User", "Sys"}
    THEN FormatTime(IF loops <= 1 THEN val ELSE Over(val, loops))
    ELSE IF item_kind = "CpuUsage"
    THEN [unit |-> "%", parts |-> <<round_precision(val, 2)>>]
    ELSE IF item_kind \in {"MaxResident", "AvgSharedText", "AvgUnsharedData",
                           "AvgStack", "AvgTotal", "AvgResident", "PeakMemory"}
    THEN FormatSize(val)
    ELSE IF item_kind \in {"MajorPageFault", "MinorPageFault",
                           "VoluntaryCtxSwitch", "InvoluntaryCtxSwitch",
                           "Swap", "BlockInput", "BlockOutput", "MsgSend",
                           "MsgRecv"}
    THEN FormatDigit(IF loops <= 1 THEN val ELSE Over(val, loops))
    ELSE FormatDigit(val)
meas_item_unit_value(item_kind, val, loops) ==
    IF item_kind \in {"Real", "User", "Sys"}
    THEN FormatTime(IF loops <= 1 THEN val ELSE Over(val, loops))
    ELSE IF item_kind = "CpuUsage"
    THEN [unit |-> "%", parts |-> <<round_precision(val, 2)>>]
    ELSE IF item_kind \in {"MaxResident", "AvgSharedText", "AvgUnsharedData",
                           "AvgStack", "AvgTotal", "AvgResident", "PeakMemory"}
    THEN FormatSize(val)
    ELSE IF item_kind \in {"MajorPageFault", "MinorPageFault",
                           "VoluntaryCtxSwitch", "InvoluntaryCtxSwitch",
                           "Swap", "BlockInput", "BlockOutput", "MsgSend",
                           "MsgRecv", "SignalRecv"}
    THEN FormatDigit(IF loops <= 1 THEN val ELSE Over(val, loops))
    ELSE FormatDigit(val)

\* --------------------------------------------------------------- stats.rs
\* An f64 given to Stats: finite, with its value, or not (NaN, an infinity).
Sample(v) == [finite |-> TRUE, val |-> v]
NonFinite == [finite |-> FALSE, val |-> 0]
is_finite(x) == x.finite

\* Absolute value and sum of integers, greatest common divisor.
Abs(i) == IF i < 0 THEN -i ELSE i
Sign(i) == IF i < 0 THEN -1 ELSE IF i = 0 THEN 0 ELSE 1
RECURSIVE GCD(_, _)
GCD(a, b) == IF b = 0 THEN a ELSE GCD(b, a % b)
RECURSIVE Sum(_)
Sum(s) == IF s = <<>> THEN 0 ELSE Head(s) + Sum(Tail(s))

\* The sample that stands for f64::MAX in a vector of samples; the other
\* samples are small integers.
MAX == 1000

\* The f64 values the statistics take. With den > 0 the value is num / den
\* when big = 0 and (num / den) * f64::MAX when big = 1; with den = 0 it is
\* an infinity of the sign of num, or NaN when num = 0. A result beyond
\* f64::MAX is an infinity; fractions are kept in lowest terms.
F64(num, den, big) ==
    IF den = 0 THEN [num |-> Sign(num), den |-> 0, big |-> 0]
    ELSE IF num = 0 THEN [num |-> 0, den |-> 1, big |-> 0]
    ELSE IF big >= 2 \/ (big = 1 /\ Abs(num) > den)
    THEN [num |-> Sign(num), den |-> 0, big |-> 0]
    ELSE LET g == GCD(Abs(num), den) IN
         [num |-> num \div g, den |-> den \div g, big |-> big]
NaN == F64(0, 0, 0)
IsNaN(a) == a.den = 0 /\ a.num = 0
IsInf(a) == a.den = 0 /\ a.num # 0

\* f64 arithmetic: a small value added to a value of the size of f64::MAX
\* is absorbed, inf - inf and 0 * inf are NaN, comparisons with NaN are false.
Num(i) == IF i = MAX THEN F64(1, 1, 1) ELSE F64(i, 1, 0)
Neg(a) == [a EXCEPT !.num = -a.num]
Magnitude(a) == [a EXCEPT !.num = Abs(a.num)]
Add(a, b) ==
    IF IsNaN(a) \/ IsNaN(b) THEN NaN
    ELSE IF IsInf(a) /\ IsInf(b) THEN (IF a.num = b.num THEN a ELSE NaN)
    ELSE IF IsInf(a) THEN a
    ELSE IF IsInf(b) THEN b
    ELSE IF a.big > b.big THEN a
    ELSE IF b.big > a.big THEN b
    ELSE F64(a.num * b.den + b.num * a.den, a.den * b.den, a.big)
Sub(a, b) == Add(a, Neg(b))
Mul(a, b) ==
    IF IsNaN(a) \/ IsNaN(b) THEN NaN
    ELSE IF IsInf(a) \/ IsInf(b) THEN F64(a.num * b.num, 0, 0)
    ELSE F64(a.num * b.num, a.den * b.den, a.big + b.big)
Div(a, c) == Mul(a, F64(1, c, 0))
Leq(a, b) ==
    IF IsNaN(a) \/ IsNaN(b) THEN FALSE
    ELSE IF a = b THEN TRUE
    ELSE IF IsInf(a) THEN a.num < 0
    ELSE IF IsInf(b) THEN b.num > 0
    ELSE IF a.big > b.big THEN a.num < 0
    ELSE IF b.big > a.big THEN b.num > 0
    ELSE a.num * b.den <= b.num * a.den
Same(a, b) == ~IsNaN(a) /\ ~IsNaN(b) /\ a = b
\* f64::sqrt, which the model never needs to evaluate.
Sqrt(q) == [sqrt |-> q]
SameRoot(a, b) == Same(a.sqrt, b.sqrt)

\* Iterator::sum and Iterator::fold, from the first element to the last.
RECURSIVE Total(_, _)
Total(acc, s) == IF s = <<>> THEN acc ELSE Total(Add(acc, Head(s)), Tail(s))

\* sorted[i] for a usize index.
At(sorted, i) == sorted[i + 1]

\* #[derive(Default)] for Stats, lines 5-32.
DefaultStats ==
    [sorted_samples |-> <<>>, nan_count |-> 0, mad |-> Num(0),
     outlier_count |-> 0, lcl |-> Num(0), ucl |-> Num(0),
     mean |-> Num(0), mean_excluding_outlier |-> Num(0),
     stdev |-> Sqrt(Num(0)), stdev_excluding_outlier |-> Sqrt(Num(0))]

\* search_right, lines 253-260.
RECURSIVE search_right(_, _, _, _)
search_right(sorted, x, lo, hi) ==
    IF hi <= lo THEN lo
    ELSE IF At(sorted, hi - 1) <= x THEN hi
    ELSE search_right(sorted, x, lo, hi - 1)

\* bisect_right, lines 243-247: the loop over the elements equal to x.
RECURSIVE SkipEqual(_, _, _)
SkipEqual(sorted, x, index) ==
    IF index < Len(sorted) /\ x = At(sorted, index)
    THEN SkipEqual(sorted, x, index + 1)
    ELSE index

\* bisect_right, lines 232-251.
RECURSIVE bisect_right(_, _, _, _)
bisect_right(sorted, x, lo, hi) ==
    IF hi <= lo THEN hi
    ELSE IF hi + 7 <= lo THEN search_right(sorted, x, lo, hi)
    ELSE LET mid == lo + (hi - lo) \div 2 IN
         IF x < At(sorted, mid) THEN bisect_right(sorted, x, lo, mid)
         ELSE IF At(sorted, mid) < x THEN bisect_right(sorted, x, mid + 1, hi)
         ELSE SkipEqual(sorted, x, mid + 1)

\* Vec::insert.
Inserted(sorted, index, x) ==
    SubSeq(sorted, 1, index) \o <<x>> \o SubSeq(sorted, index + 1, Len(sorted))

\* sort_only_finite, lines 219-230.
RECURSIVE SortInto(_, _)
SortInto(sorted, data) ==
    IF data = <<>> THEN sorted
    ELSE LET x == Head(data) IN
         IF ~is_finite(x) THEN SortInto(sorted, Tail(data))
         ELSE SortInto(Inserted(sorted,
                                bisect_right(sorted, x.val, 0, Len(sorted)),
                                x.val),
                       Tail(data))
sort_only_finiteBug(data) ==
    LET finite == SelectSeq(data, is_finite) IN
    [i \in DOMAIN finite |-> finite[i].val]
sort_only_finite(data) == SortInto(<<>>, data)

\* Stats::calc, line 76: 1.4826.
coefficient == F64(7413, 5000, 0)

\* Stats::calc, lines 87 and 97, 107: lcl <= x && x <= ucl.
WithinBug(lcl, ucl, x) == ~Leq(Num(x), lcl) /\ ~Leq(ucl, Num(x))
Within(lcl, ucl, x) == Leq(lcl, Num(x)) /\ Leq(Num(x), ucl)

\* Stats::calc, lines 50-129.
calc(s) ==
    IF s.sorted_samples = <<>> THEN s
    ELSE
    LET sorted == [i \in DOMAIN s.sorted_samples |-> Num(s.sorted_samples[i])]
        count == Len(sorted)
        median == At(sorted, count \div 2)
        sum == Total(Num(0), sorted)
        mean == Div(sum, count)
        variance ==
            Div(Total(Num(0), [i \in DOMAIN sorted |->
                                  Mul(Sub(sorted[i], mean), Sub(sorted[i], mean))]),
                count)
        mad ==
            Div(Total(Num(0), [i \in DOMAIN sorted |->
                                  Magnitude(Sub(sorted[i], median))]),
                count)
        standard_deviation == Sqrt(variance)
        lcl == Sub(median, Mul(Mul(Num(3), coefficient), mad))
        ucl == Add(median, Mul(Mul(Num(3), coefficient), mad))
        min == At(s.sorted_samples, 0)
        max == At(s.sorted_samples, count - 1)
        all_within == Within(lcl, ucl, min) /\ Within(lcl, ucl, max)
        Kept(x) == Within(lcl, ucl, x)
        kept == SelectSeq(s.sorted_samples, Kept)
        outlier_count == IF all_within THEN 0 ELSE count - Len(kept)
        rest == count - outlier_count
        mean_excluding_outlier ==
            IF all_within THEN mean
            ELSE Div(Total(Num(0), [i \in DOMAIN kept |-> Num(kept[i])]), rest)
        stdev_excluding_outlier ==
            IF all_within THEN standard_deviation
            ELSE Sqrt(Div(Total(Num(0),
                                [i \in DOMAIN kept |->
                                    Mul(Sub(Num(kept[i]), mean_excluding_outlier),
                                        Sub(Num(kept[i]), mean_excluding_outlier))]),
                          rest))
    IN  [s EXCEPT !.mad = mad, !.outlier_count = outlier_count,
                  !.lcl = lcl, !.ucl = ucl, !.mean = mean,
                  !.mean_excluding_outlier = mean_excluding_outlier,
                  !.stdev = standard_deviation,
                  !.stdev_excluding_outlier = stdev_excluding_outlier]

\* Stats::new, lines 36-47.
new(samples) ==
    LET sorted == sort_only_finite(samples) IN
    calc([DefaultStats EXCEPT !.sorted_samples = sorted,
                              !.nan_count = Len(samples) - Len(sorted)])

\* Stats::add, lines 132-141.
addBug(s, val) ==
    IF ~is_finite(val) THEN [s EXCEPT !.nan_count = @ + 1]
    ELSE calc([s EXCEPT !.sorted_samples = Inserted(@, Len(@), val.val)])
add(s, val) ==
    IF ~is_finite(val) THEN [s EXCEPT !.nan_count = @ + 1]
    ELSE calc([s EXCEPT !.sorted_samples =
                   Inserted(@, bisect_right(@, val.val, 0, Len(@)), val.val)])

\* Stats::count, Stats::count_excluding_outlier, lines 144-150.
count(s) == Len(s.sorted_samples)
count_excluding_outlier(s) == Len(s.sorted_samples) - s.outlier_count

\* Stats::median, Stats::min, Stats::max, lines 153-166.
median(s) ==
    IF Len(s.sorted_samples) \div 2 < Len(s.sorted_samples)
    THEN At(s.sorted_samples, Len(s.sorted_samples) \div 2) ELSE 0
min(s) == IF s.sorted_samples = <<>> THEN 0 ELSE At(s.sorted_samples, 0)
max(s) ==
    IF s.sorted_samples = <<>> THEN 0
    ELSE At(s.sorted_samples, Len(s.sorted_samples) - 1)

\* Stats::min_excluding_outlier, lines 168-174.
min_excluding_outlierBug(s) ==
    LET Found(x) == ~Leq(Num(x), s.lcl)
        found == SelectSeq(s.sorted_samples, Found) IN
    IF found = <<>> THEN 0 ELSE Head(found)
min_excluding_outlier(s) ==
    LET Found(x) == Leq(s.lcl, Num(x))
        found == SelectSeq(s.sorted_samples, Found) IN
    IF found = <<>> THEN 0 ELSE Head(found)

\* Stats::max_excluding_outlier, lines 175-182.
max_excluding_outlier(s) ==
    LET Kept(x) == Leq(Num(x), s.ucl)
        kept == SelectSeq(s.sorted_samples, Kept) IN
    IF kept = <<>> THEN 0 ELSE kept[Len(kept)]

\* Stats::median_excluding_outlier, lines 183-190.
median_excluding_outlier(s) ==
    LET Kept(x) == Within(s.lcl, s.ucl, x)
        excluding_outlier == SelectSeq(s.sorted_samples, Kept) IN
    IF Len(excluding_outlier) \div 2 < Len(excluding_outlier)
    THEN At(excluding_outlier, Len(excluding_outlier) \div 2) ELSE 0

\* ---------------------------------------------------------------- mean.rs
\* What a function returns: a value, or the panic of an index out of bounds.
Returned(v) == [panic |-> FALSE, val |-> v]
OutOfBounds(index) == [panic |-> TRUE, val |-> index]

\* mean.rs, bisect_right, lines 181-185: the loop over the elements equal
\* to x, which reads sorted[index] without comparing index with the length.
RECURSIVE MeanSkipEqual(_, _, _)
MeanSkipEqual(sorted, x, index) ==
    IF index >= Len(sorted) THEN OutOfBounds(index)
    ELSE IF x = At(sorted, index) THEN MeanSkipEqual(sorted, x, index + 1)
    ELSE Returned(index)

\* mean.rs, bisect_right, lines 169-188.
RECURSIVE mean_bisect_right(_, _, _, _)
mean_bisect_right(sorted, x, lo, hi) ==
    IF hi <= lo THEN Returned(hi)
    ELSE IF hi + 7 <= lo THEN Returned(search_right(sorted, x, lo, hi))
    ELSE LET mid == lo + (hi - lo) \div 2 IN
         IF x < At(sorted, mid) THEN mean_bisect_right(sorted, x, lo, mid)
         ELSE IF At(sorted, mid) < x
         THEN mean_bisect_right(sorted, x, mid + 1, hi)
         ELSE MeanSkipEqual(sorted, x, mid + 1)

\* ------------------------------------------------------------ cli_args.rs
\* Strings are sequences of characters.
starts_with(str, ch) == Len(str) > 0 /\ str[1] = ch
ends_with(str, ch) == Len(str) > 0 /\ str[Len(str)] = ch
contains(str, ch) == \E i \in DOMAIN str : str[i] = ch

\* str::replace of one character by a string.
RECURSIVE replace(_, _, _)
replace(str, from, to) ==
    IF str = <<>> THEN <<>>
    ELSE (IF Head(str) = from THEN to ELSE <<Head(str)>>)
             \o replace(Tail(str), from, to)

\* [String]::join.
RECURSIVE join(_, _)
join(strs, sep) ==
    IF strs = <<>> THEN <<>>
    ELSE IF Len(strs) = 1 THEN strs[1]
    ELSE strs[1] \o sep \o join(Tail(strs), sep)

\* is_quoted, lines 123-125.
is_quoted(str) ==
    \/ starts_with(str, "\"") /\ ends_with(str, "\"")
    \/ starts_with(str, "'") /\ ends_with(str, "'")

\* to_quoted, lines 127-132.
to_quotedBug(str) ==
    IF is_quoted(str) THEN str
    ELSE <<"'">> \o replace(str, "'", <<"\\", "'">>) \o <<"'">>
to_quoted(str) ==
    IF is_quoted(str) \/ starts_with(str, "-") THEN str
    ELSE <<"'">> \o replace(str, "'", <<"\\", "'">>) \o <<"'">>

\* CliArgs::normalized_commands, lines 94-116: the loop over self.commands.
delimiters == <<"-", "-">>
RECURSIVE NormalizeFrom(_, _, _)
NormalizeFrom(cmds, one_command_and_args, rest) ==
    IF rest = <<>> THEN [commands |-> cmds, one |-> one_command_and_args]
    ELSE LET one == Head(rest) IN
         IF one_command_and_args = <<>>
         THEN IF one = delimiters
              THEN NormalizeFrom(cmds, one_command_and_args, Tail(rest))
              ELSE IF contains(one, " ")
              THEN NormalizeFrom(Append(cmds, one), one_command_and_args,
                                 Tail(rest))
              ELSE NormalizeFrom(cmds, <<one>>, Tail(rest))
         ELSE IF one = delimiters
         THEN NormalizeFrom(Append(cmds, join(one_command_and_args, <<" ">>)),
                            <<>>, Tail(rest))
         ELSE NormalizeFrom(cmds,
                            Append(one_command_and_args, to_quoted(one)),
                            Tail(rest))

\* CliArgs::normalized_commands, lines 91-121.
normalized_commands(args) ==
    LET end == NormalizeFrom(<<>>, <<>>, args) IN
    IF end.one # <<>>
    THEN Append(end.commands, join(end.one, <<" ">>))
    ELSE end.commands

\* ---------------------------------------------------------------- app.rs
\* run, lines 75-88: the exit status made of run_app's return value.
ExitCode(r) ==
    IF r.code = "SUCCESS" /\ r.msg = "none" THEN ExitSuccess ELSE ExitFailure

\* run_app's return values.
RetQuitBug == [code |-> "SUCCESS", msg |-> "none"]
RetQuit == [code |-> "FAILURE", msg |-> "none"]
RetNotFoundBug == [code |-> "SUCCESS", msg |-> "none"]
RetNotFound == [code |-> "FAILURE", msg |-> "time command not found"]
RetSpawnError == [code |-> "FAILURE", msg |-> "Could not start execution"]
RetSuccess == [code |-> "SUCCESS", msg |-> "none"]

\* run_app, line 214: the run loop continues while n is in 0..runs.
HasNextRunBug(i, runs) == i + 1 < runs
HasNextRun(i, runs) == i < runs

\* run_app, line 216: position of the backend of run i among k backends.
PickBackendBug(i, k) == IF i < k THEN i ELSE k - 1
PickBackend(i, k) == i % k

\* prepare_time_commands, line 332: the builtin family is tried.
NeedBuiltinBug(cs) == TRUE
NeedBuiltin(cs) == cs = <<>>

\* prepare_time_commands: first family to try.
FirstFamily(c) ==
    IF ~c.use_builtin_only /\ ~c.no_bsd THEN "bsd"
    ELSE IF ~c.use_builtin_only /\ ~c.no_gnu THEN "gnu"
    ELSE "builtin"

\* prepare_time_commands: what follows family f once its loop is left with
\* the list cs; "end" is `Some(commands)`.
FamilyAfter(f, c, cs) ==
    IF f = "bsd" /\ ~c.no_gnu THEN "gnu"
    ELSE IF f # "builtin" /\ NeedBuiltin(cs) THEN "builtin"
    ELSE "end"

\* prepare_time_commands: the fallback ladder of one family after an
\* unavailable candidate; retry = FALSE is the `break`.
NextVariantBug(f, sh, tm) ==
    IF f = "gnu"
    THEN IF sh /\ tm THEN [retry |-> FALSE, sh |-> sh, tm |-> tm]
         ELSE IF sh THEN [retry |-> TRUE, sh |-> sh, tm |-> TRUE]
         ELSE IF tm THEN [retry |-> TRUE, sh |-> TRUE, tm |-> FALSE]
         ELSE [retry |-> TRUE, sh |-> sh, tm |-> TRUE]
    ELSE IF sh THEN [retry |-> ~tm, sh |-> sh, tm |-> TRUE]
         ELSE [retry |-> TRUE, sh |-> TRUE, tm |-> FALSE]
NextVariant(f, sh, tm) ==
    IF f = "gnu"
    THEN IF sh /\ tm THEN [retry |-> FALSE, sh |-> sh, tm |-> tm]
         ELSE IF sh THEN [retry |-> TRUE, sh |-> sh, tm |-> TRUE]
         ELSE IF tm THEN [retry |-> TRUE, sh |-> TRUE, tm |-> FALSE]
         ELSE [retry |-> TRUE, sh |-> sh, tm |-> TRUE]
    ELSE IF sh THEN [retry |-> FALSE, sh |-> sh, tm |-> FALSE]
         ELSE [retry |-> TRUE, sh |-> TRUE, tm |-> FALSE]

\* DrawMsg values.
MsgQuit == [type |-> "Quit"]
MsgWarn(f) == [type |-> "Warn", family |-> f]
MsgPrintH(t) == [type |-> "PrintH", target |-> t]
MsgStartMeasure == [type |-> "StartMeasure"]
MsgReportMeasure(rs) == [type |-> "ReportMeasure", reports |-> rs]

\* run_app, lines 181-196: the warnings for the families that are missing.
HasType(cs, type) == \E i \in 1..Len(cs) : cs[i].cmd_type = type
WarningsBug(c, cs) ==
    IF c.use_builtin_only THEN <<>>
    ELSE (IF ~c.no_bsd /\ ~HasType(cs, "bsd") THEN <<MsgWarn("bsd")>> ELSE <<>>)
         \o (IF ~HasType(cs, "gnu") THEN <<MsgWarn("gnu")>> ELSE <<>>)
Warnings(c, cs) ==
    IF c.use_builtin_only THEN <<>>
    ELSE (IF ~c.no_bsd /\ ~HasType(cs, "bsd") THEN <<MsgWarn("bsd")>> ELSE <<>>)
         \o (IF ~c.no_gnu /\ ~HasType(cs, "gnu") THEN <<MsgWarn("gnu")>> ELSE <<>>)

IsSchedMsg(m) == m.type # "Quit"

\* print_reports, lines 638-642: the samples of MeasItem::ExitStatus.
ExitSamples(reports) == [j \in 1..Len(reports) |-> reports[j].exit_status]

\* print_exit_status, lines 718-726: the counter of a code after the fold
\* over the samples.  The counters are i16: past i16::MAX, `+= 1` wraps in a
\* build without overflow checks and panics in a build with them.
Times(samples, code) ==
    LET folded == Cardinality({j \in 1..Len(samples) : samples[j] = code}) IN
    ((folded + 32768) % 65536) - 32768
\* lines 727-733: the histogram without the entry of code 0, as (code,
\* times) pairs.
FailureCodesOf(samples) ==
    {<<code, Times(samples, code)>> :
        code \in {samples[j] : j \in 1..Len(samples)} \ {0}}
\* print_exit_status: the success count, the failure count, which is
\* samples.len() - success as usize, and the failure codes that are printed.
\* `overflow` tells that a counter passed i16::MAX: the counts are then those
\* of the wrapping build, and the checking build panics at line 722.
PrintExitStatus(samples) ==
    [success |-> Times(samples, 0),
     failure |-> Len(samples) - Times(samples, 0),
     failure_codes |-> FailureCodesOf(samples),
     overflow |-> \E code \in {samples[j] : j \in 1..Len(samples)} :
                     Times(samples, code) < 0]

\* Exit codes of a target command: success, and the failure of the
\* integration test failure_command_is_supported.
SuccessCodes == {0}
FailureCodes == {1}

\* A session uses no TimeCmd, measurement item or Stats but its own.
NoCall == [op |-> "none", val |-> "none", seq |-> 0]
IdleTimeCmd == tc = NoCmd /\ tc_ret = NoCall /\ tc_out = "none"
IdleMeas == item = [kind |-> "none"] /\ text = <<>>
IdleStats == stats = DefaultStats /\ supplied = <<>>
IdleCall == call = [fn |-> "none"] /\ returned = <<>>
IdleView == frame = <<>>

\* run, lines 14-49, and the first instructions of its three tasks.
SessionStart ==
    /\ upc = "construct"
    /\ fam = FirstFamily(cli)
    /\ fallback_sh = FALSE
    /\ fallback_time = FALSE
    /\ cmd = NoCmd
    /\ commands = <<>>
    /\ orphan = "none"
    /\ target_index = 0
    /\ n = 0
    /\ time_cmd = 0
    /\ running = FALSE
    /\ ret = NoRet
    /\ model = [current_run |-> 0, current_max |-> 0, current_reports |-> <<>>]
    /\ inbox = 0
    /\ draw_q = <<>>
    /\ observed = <<>>
    /\ measuring = FALSE
    /\ dpc = "loop"
    /\ ipc = "poll"
    /\ keys = 0
    /\ exit_status = <<>>
    /\ sent = <<>>
    /\ quit_seen = "none"
    /\ run_error = "none"
    /\ kills = {}
    /\ constructed = <<>>
    /\ quit_disc = FALSE
    /\ quit_run = -1

\* The state after construction, the targets exiting with a code of `codes`.
SessionInit(codes) ==
    /\ cli \in [use_builtin_only : BOOLEAN, no_bsd : BOOLEAN, no_gnu : BOOLEAN,
                runs : 0..MaxRuns, loops : {1, MaxLoops}, targets : 0..MaxTargets]
    /\ target_exit \in codes
    /\ IdleTimeCmd
    /\ IdleMeas
    /\ IdleStats
    /\ IdleCall
    /\ IdleView
    /\ SessionStart

\* A session whose target commands succeed.
Init == SessionInit(SuccessCodes)
\* A session whose target commands fail.
InitFailing == SessionInit(FailureCodes)


\* ------------------------------------------------------- scheduler task
\* run, line 53: updating_thread.is_finished().
FinishedBug == ~(upc \in {"construct", "probe", "disc_wait"})
Finished == upc \in {"done", "panicked"}
InDiscovery == upc \in {"construct", "probe", "disc_wait"}

\* prepare_time_commands: the loop of family fam is left with the list cs.
LeaveFamily(cs) ==
    LET f == FamilyAfter(fam, cli, cs) IN
    /\ commands' = cs
    /\ fam' = f
    /\ fallback_sh' = FALSE
    /\ fallback_time' = FALSE
    /\ upc' = IF f = "end" THEN "check" ELSE "construct"

\* prepare_time_commands: command_available returned Some(false).
Unavailable ==
    LET v == NextVariant(fam, fallback_sh, fallback_time) IN
    IF v.retry
    THEN /\ fallback_sh' = v.sh
         /\ fallback_time' = v.tm
         /\ upc' = "construct"
         /\ UNCHANGED <<fam, commands>>
    ELSE LeaveFamily(commands)

\* try_new_*_time and the is_err test of command_available.
Construct ==
    /\ upc = "construct"
    /\ constructed' = Append(constructed,
           [cmd_type |-> fam, sh |-> fallback_sh, tm |-> fallback_time])
    /\ \E spawned \in BOOLEAN :
          IF spawned
          THEN /\ cmd' = NewTimeCmd(fam)
               /\ upc' = "probe"
               /\ UNCHANGED <<fam, fallback_sh, fallback_time, commands>>
          ELSE /\ cmd' = NoCmd
               /\ Unavailable
    /\ UNCHANGED <<orphan, ret, quit_seen, run_error, kills, inbox, draw_q, sent>>
    /\ UNCHANGED <<bench_vars, draw_vars, input_vars, ghost_quit, cli, target_exit, unit_vars>>

\* command_available: one ready_status poll and the match on it.
Probe ==
    /\ upc = "probe"
    /\ LET c == ready_status(cmd) IN
          IF c.ready_status = "Ready"
          THEN /\ cmd' = NoCmd
               /\ LeaveFamily(Append(commands, c))
          ELSE IF c.ready_status = "Error"
          THEN /\ cmd' = NoCmd
               /\ Unavailable
          ELSE /\ cmd' = c
               /\ upc' = "disc_wait"
               /\ UNCHANGED <<fam, fallback_sh, fallback_time, commands>>
    /\ UNCHANGED <<orphan, ret, quit_seen, run_error, kills, inbox, draw_q, sent>>
    /\ UNCHANGED constructed
    /\ UNCHANGED <<bench_vars, draw_vars, input_vars, ghost_quit, cli, target_exit, unit_vars>>

\* command_available: wait_recv_quit; on Quit prepare_time_commands returns
\* None and run_app returns, dropping the candidate without a kill.
DiscWait ==
    /\ upc = "disc_wait"
    /\ IF inbox > 0
       THEN /\ inbox' = inbox - 1
            /\ quit_seen' = "discovery"
            /\ orphan' = cmd.process
            /\ cmd' = NoCmd
            /\ ret' = RetQuit
            /\ upc' = "done"
       ELSE /\ upc' = "probe"
            /\ UNCHANGED <<inbox, quit_seen, orphan, cmd, ret>>
    /\ UNCHANGED <<fam, fallback_sh, fallback_time, commands, constructed>>
    /\ UNCHANGED <<kills, draw_q, sent, run_error>>
    /\ UNCHANGED <<bench_vars, draw_vars, input_vars, ghost_quit, cli, target_exit, unit_vars>>

\* run_app, lines 168-196.
CheckAvailable ==
    /\ upc = "check"
    /\ IF commands = <<>>
       THEN /\ ret' = RetNotFound
            /\ upc' = "done"
            /\ UNCHANGED <<draw_q, sent, constructed>>
       ELSE /\ draw_q' = draw_q \o Warnings(cli, commands)
            /\ sent' = sent \o Warnings(cli, commands)
            /\ upc' = "target_head"
            /\ constructed' = <<>>
            /\ UNCHANGED ret
    /\ UNCHANGED <<fam, fallback_sh, fallback_time, cmd, commands>>
    /\ UNCHANGED <<orphan, quit_seen, run_error, kills, inbox>>
    /\ UNCHANGED <<bench_vars, draw_vars, input_vars, ghost_quit, cli, target_exit, unit_vars>>

\* run_app, lines 200-207 and 261: next target's header, or the return.
TargetHeadBug ==
    /\ upc = "target_head"
    /\ IF target_index < cli.targets
       THEN /\ IF target_index = 0
               THEN /\ draw_q' = Append(draw_q, MsgPrintH(target_index))
                    /\ sent' = Append(sent, MsgPrintH(target_index))
               ELSE UNCHANGED <<draw_q, sent>>
            /\ upc' = "start_measure"
            /\ UNCHANGED ret
       ELSE /\ ret' = RetSuccess
            /\ upc' = "done"
            /\ UNCHANGED <<draw_q, sent>>
    /\ UNCHANGED <<disc_vars, orphan, quit_seen, run_error, kills, inbox>>
    /\ UNCHANGED <<bench_vars, draw_vars, input_vars, ghost_quit, cli, target_exit, unit_vars>>
TargetHead ==
    /\ upc = "target_head"
    /\ IF target_index < cli.targets
       THEN /\ draw_q' = Append(draw_q, MsgPrintH(target_index))
            /\ sent' = Append(sent, MsgPrintH(target_index))
            /\ upc' = "start_measure"
            /\ UNCHANGED ret
       ELSE /\ ret' = RetSuccess
            /\ upc' = "done"
            /\ UNCHANGED <<draw_q, sent>>
    /\ UNCHANGED <<disc_vars, orphan, quit_seen, run_error, kills, inbox>>
    /\ UNCHANGED <<bench_vars, draw_vars, input_vars, ghost_quit, cli, target_exit, unit_vars>>

\* run_app, lines 208-213, under the write lock.
StartMeasure ==
    /\ upc = "start_measure"
    /\ model' = [model EXCEPT !.current_reports = <<>>, !.current_max = cli.runs]
    /\ draw_q' = Append(draw_q, MsgStartMeasure)
    /\ sent' = Append(sent, MsgStartMeasure)
    /\ n' = 0
    /\ upc' = "run_head"
    /\ UNCHANGED <<disc_vars, orphan, quit_seen, run_error, kills, inbox, ret>>
    /\ UNCHANGED <<target_index, time_cmd, running>>
    /\ UNCHANGED <<draw_vars, input_vars, ghost_quit, cli, target_exit, unit_vars>>

\* run_app, lines 214-217 and 255-259: next run, or the target's report.
RunHead ==
    /\ upc = "run_head"
    /\ IF HasNextRun(n, cli.runs)
       THEN /\ model' = [model EXCEPT !.current_run = n]
            /\ time_cmd' = PickBackend(n, Len(commands)) + 1
            /\ running' = FALSE
            /\ upc' = "loop"
            /\ UNCHANGED <<draw_q, sent, target_index>>
       ELSE /\ draw_q' = Append(draw_q, MsgReportMeasure(model.current_reports))
            /\ sent' = Append(sent, MsgReportMeasure(model.current_reports))
            /\ target_index' = target_index + 1
            /\ upc' = "target_head"
            /\ UNCHANGED <<model, time_cmd, running>>
    /\ UNCHANGED <<disc_vars, orphan, quit_seen, run_error, kills, inbox, ret, n>>
    /\ UNCHANGED <<draw_vars, input_vars, ghost_quit, cli, target_exit, unit_vars>>

\* The report pushed for run n of the target (its measurements abstracted).
Report(c) ==
    [target |-> target_index, run |-> n, backend |-> time_cmd,
     cmd_type |-> c.cmd_type, execs |-> cli.loops,
     exit_status |-> c.meas_report[1].ExitStatus]

\* run_app, lines 246-252: the tick wait; on Quit kill and return.
TickWaitNoKill ==
    IF inbox > 0
    THEN /\ inbox' = inbox - 1
         /\ quit_seen' = "run"
         /\ ret' = RetQuit
         /\ upc' = "done"
         /\ UNCHANGED <<commands, kills>>
    ELSE /\ upc' = "loop"
         /\ UNCHANGED <<inbox, quit_seen, commands, kills, ret>>
TickWait ==
    IF inbox > 0
    THEN /\ inbox' = inbox - 1
         /\ quit_seen' = "run"
         /\ IF running
            THEN /\ commands' = [commands EXCEPT ![time_cmd] = Killed(@)]
                 /\ kills' = kills \cup {time_cmd}
            ELSE UNCHANGED <<commands, kills>>
         /\ ret' = RetQuit
         /\ upc' = "done"
    ELSE /\ upc' = "loop"
         /\ UNCHANGED <<inbox, quit_seen, commands, kills, ret>>

\* run_app, lines 219-227: the head of an iteration with the child spawned:
\* is_finished, then get_report().unwrap() and the push; else the scheduler
\* goes to block in the tick wait of line 246.
Collect ==
    /\ upc = "loop"
    /\ running
    /\ IF is_finished(commands[time_cmd])
       THEN /\ LET r == get_report(commands[time_cmd]) IN
               IF r.err # "none"
               THEN /\ upc' = "panicked"
                    /\ run_error' = "parse"
                    /\ UNCHANGED <<commands, model, n>>
               ELSE /\ commands' = [commands EXCEPT ![time_cmd] = r.cmd]
                    /\ UNCHANGED run_error
                    /\ model' = [model EXCEPT !.current_reports =
                                     Append(@, Report(r.cmd))]
                    /\ n' = n + 1
                    /\ upc' = "run_head"
       ELSE /\ upc' = "wait"
            /\ UNCHANGED <<commands, model, n, run_error>>
    /\ UNCHANGED <<inbox, quit_seen, kills, ret>>
    /\ UNCHANGED <<fam, fallback_sh, fallback_time, cmd, constructed>>
    /\ UNCHANGED <<orphan, draw_q, sent>>
    /\ UNCHANGED <<target_index, time_cmd, running>>
    /\ UNCHANGED <<draw_vars, input_vars, ghost_quit, cli, target_exit, unit_vars>>

\* run_app, lines 228-245: execute, and the return on its error.
Execute ==
    /\ upc = "loop"
    /\ ~running
    /\ \E spawned \in BOOLEAN :
          IF spawned /\ commands[time_cmd].ready_status = "Ready"
          THEN /\ commands' = [commands EXCEPT ![time_cmd] = Executed(@)]
               /\ running' = TRUE
               /\ upc' = "wait"
               /\ UNCHANGED <<ret, run_error>>
          ELSE /\ ret' = RetSpawnError
               /\ run_error' = "spawn"
               /\ upc' = "done"
               /\ UNCHANGED <<commands, running>>
    /\ UNCHANGED <<fam, fallback_sh, fallback_time, cmd, constructed>>
    /\ UNCHANGED <<orphan, quit_seen, kills, inbox, draw_q, sent>>
    /\ UNCHANGED <<target_index, n, time_cmd, model>>
    /\ UNCHANGED <<draw_vars, input_vars, ghost_quit, cli, target_exit, unit_vars>>

\* run_app, lines 246-252: the tick wait that follows the spawn or a poll
\* that found the child running.
WaitQuit ==
    /\ upc = "wait"
    /\ TickWait
    /\ UNCHANGED <<fam, fallback_sh, fallback_time, cmd, constructed>>
    /\ UNCHANGED <<orphan, draw_q, sent, run_error>>
    /\ UNCHANGED <<bench_vars, draw_vars, input_vars, ghost_quit, cli, target_exit, unit_vars>>

\* ------------------------------------------------------ child processes
\* A running child exits by itself, a signalled one dies; its diagnostics
\* parse to some entries ("ok") or to none ("empty").  The child is the shell:
\* its exit code is that of the command line it was given.  With the time
\* program it is the code of what the time program ran, `true` in the
\* self-test and the target in a measurement, which GNU time also prints on
\* its `Exit status` line.  Without the time program the shell runs nothing
\* and exits with 127, its message being all there is on the pipe.
Exited(c, out) ==
    LET code == IF c.missing THEN 127
                ELSE IF c.job = "selftest" THEN 0 ELSE target_exit IN
    [c EXCEPT !.process = "exited", !.stderr = out, !.code = <<code>>,
              !.status_line = IF c.cmd_type = "gnu" /\ out = "ok" /\ ~c.missing
                              THEN <<code>> ELSE <<>>]

\* A child exits or dies, leaving the diagnostics d.  The message of a shell
\* that finds no program parses to no entry, or, in the grammar of GNU time
\* alone, to one: `sh: 1: gtime: not found` reads there as the entry `sh`
\* of value 1.  Such a shell prints the same message at every run.
ChildExit ==
    LET Diagnostics(c) ==
            IF c.job = "selftest"
            THEN {[out |-> "ok", missing |-> FALSE],
                  [out |-> "empty", missing |-> FALSE]}
                 \cup (IF c.cmd_type = "gnu"
                       THEN {[out |-> "ok", missing |-> TRUE]} ELSE {})
            ELSE IF c.missing THEN {[out |-> "ok", missing |-> TRUE]}
            ELSE {[out |-> "ok", missing |-> FALSE],
                  [out |-> "empty", missing |-> FALSE]}
    IN
    /\ \/ /\ cmd # NoCmd
          /\ cmd.process = "running"
          /\ \E d \in Diagnostics(cmd) :
                cmd' = Exited([cmd EXCEPT !.missing = d.missing], d.out)
          /\ UNCHANGED <<commands, orphan>>
       \/ /\ \E i \in 1..Len(commands) :
                /\ commands[i].process = "running"
                /\ \E d \in Diagnostics(commands[i]) :
                      commands' = [commands EXCEPT ![i] = Exited(@, d.out)]
          /\ UNCHANGED <<cmd, orphan>>
       \/ /\ \E i \in 1..Len(commands) :
                /\ commands[i].process = "signalled"
                /\ \E d \in Diagnostics(commands[i]) :
                      commands' = [commands EXCEPT ![i] =
                          Died(@, d.out, IF @.cmd_type = "gnu" /\ ~@.missing
                                         THEN <<target_exit>> ELSE <<>>)]
          /\ UNCHANGED <<cmd, orphan>>
       \/ /\ orphan = "running"
          /\ orphan' = "exited"
          /\ UNCHANGED <<cmd, commands>>
    /\ UNCHANGED <<upc, fam, fallback_sh, fallback_time, constructed>>
    /\ UNCHANGED <<ret, quit_seen, run_error, kills, inbox, draw_q, sent>>
    /\ UNCHANGED <<bench_vars, draw_vars, input_vars, ghost_quit, cli, target_exit, unit_vars>>

\* ----------------------------------------------------------- input task
\* A measurement child is executing.
ChildExecuting ==
    /\ upc \in {"wait", "loop"}
    /\ running
    /\ commands[time_cmd].process = "running"

\* prepare_time_commands has constructed a candidate and has not returned.
DiscoveryInProgress == InDiscovery /\ constructed # <<>>

\* run, lines 53-66: the poll returns, a cancel key sends Quit and unwraps
\* the result, and the loop test is made again.  The scheduler may have
\* finished during the poll: a send to its dropped receiver panics inside
\* the thread scope, which then waits for view_app.
InputPoll ==
    /\ ipc = "poll"
    /\ \/ /\ Finished
          /\ ipc' = "terminate"
          /\ UNCHANGED <<keys, inbox, ghost_quit>>
       \/ /\ keys < MaxQuit
          /\ keys' = keys + 1
          /\ IF Finished
             THEN /\ ipc' = "hung"
                  /\ UNCHANGED <<inbox, ghost_quit>>
             ELSE /\ ipc' = "poll"
                  /\ inbox' = inbox + 1
                  /\ quit_disc' = (quit_disc \/ DiscoveryInProgress)
                  /\ quit_run' = IF quit_run = -1 /\ ChildExecuting
                                 THEN target_index ELSE quit_run
    /\ UNCHANGED <<exit_status, draw_q>>
    /\ UNCHANGED <<sched_vars, draw_vars, cli, target_exit, unit_vars>>

\* run, line 70: draw_tx.send(DrawMsg::Quit).unwrap().  The send fails when
\* view_app has panicked and dropped its receiver: the unwrap panics, the
\* thread scope has no task left to wait for, and the process ends.
InputTerminate ==
    /\ ipc = "terminate"
    /\ IF dpc = "panicked"
       THEN /\ ipc' = "exit"
            /\ exit_status' = <<ExitPanic>>
            /\ UNCHANGED draw_q
       ELSE /\ draw_q' = Append(draw_q, MsgQuit)
            /\ ipc' = "join"
            /\ UNCHANGED exit_status
    /\ UNCHANGED <<keys, inbox>>
    /\ UNCHANGED <<sched_vars, draw_vars, ghost_quit, cli, target_exit, unit_vars>>

\* run, lines 71-88 and main: both joins, each unwrapped, then the exit
\* status; a join of a task that panicked panics.  A run that panicked at
\* line 61 leaves the thread scope once view_app has ended, by its panic.
InputJoin ==
    /\ \/ ipc = "join" /\ dpc \in {"done", "panicked"}
       \/ ipc = "hung" /\ dpc = "panicked"
    /\ exit_status' = IF upc = "panicked" \/ dpc = "panicked" \/ ipc = "hung"
                      THEN <<ExitPanic>> ELSE <<ExitCode(ret)>>
    /\ ipc' = "exit"
    /\ UNCHANGED <<keys, inbox, draw_q>>
    /\ UNCHANGED <<sched_vars, draw_vars, ghost_quit, cli, target_exit, unit_vars>>

\* ---------------------------------------------------- presentation task
\* view_app, lines 416-455: one received message.
DrawRecv ==
    /\ dpc = "loop"
    /\ draw_q # <<>>
    /\ LET m == Head(draw_q) IN
          /\ draw_q' = Tail(draw_q)
          /\ observed' = Append(observed, m)
          /\ dpc' = IF m.type = "Quit" THEN "done" ELSE "loop"
          /\ measuring' = IF m.type = "StartMeasure" THEN TRUE
                          ELSE IF m.type = "ReportMeasure" THEN FALSE
                          ELSE measuring
    /\ UNCHANGED <<inbox>>
    /\ UNCHANGED <<sched_vars, input_vars, ghost_quit, cli, target_exit, unit_vars>>

\* draw_progress, lines 492-563: what it draws of the snapshot it is given:
\* the label current_run/current_max of the throbber, the reports behind
\* the estimate, and the ratio of the gauge, an f64 division.
Progress(m) ==
    [current_run |-> m.current_run,
     current_max |-> m.current_max,
     reports |-> Len(m.current_reports),
     ratio |-> F64(m.current_run, m.current_max, 0)]

\* view_app, lines 457-470, and ui, lines 476-490: a tick of the draw
\* timer on a terminal.  The snapshot is read under its lock, which the
\* panic of run_app at line 225 (taken with the write lock held) has
\* poisoned: model.read().as_ref().unwrap() then panics.  Progress is drawn
\* only while DrawState.measuring is set.
DrawTick ==
    /\ dpc = "loop"
    /\ IF upc = "panicked"
       THEN /\ dpc' = "panicked"
            /\ UNCHANGED frame
       ELSE /\ measuring
            /\ frame' = <<Progress(model)>>
            /\ UNCHANGED dpc
    /\ UNCHANGED <<observed, measuring, inbox, draw_q>>
    /\ UNCHANGED <<sched_vars, input_vars, ghost_quit, cli, target_exit>>
    /\ UNCHANGED <<cmd_vars, meas_vars, stats_vars, fn_vars>>

\* view_app, line 462: the tick that ends the view task, the snapshot's
\* lock being poisoned.
ViewPanic ==
    /\ upc = "panicked"
    /\ DrawTick

Next ==
    \/ Construct
    \/ Probe
    \/ DiscWait
    \/ CheckAvailable
    \/ TargetHead
    \/ StartMeasure
    \/ RunHead
    \/ Collect
    \/ Execute
    \/ WaitQuit
    \/ ChildExit
    \/ InputPoll
    \/ InputTerminate
    \/ InputJoin
    \/ DrawRecv
    \/ ViewPanic

Spec == Init /\ [][Next]_vars
SpecFailing == InitFailing /\ [][Next]_vars

\* The session with its three tasks scheduled fairly and every child
\* process exiting eventually; key presses are not required to happen.
SchedulerStep ==
    \/ Construct
    \/ Probe
    \/ DiscWait
    \/ CheckAvailable
    \/ TargetHead
    \/ StartMeasure
    \/ RunHead
    \/ Collect
    \/ Execute
    \/ WaitQuit
SpecLive ==
    /\ Init
    /\ [][Next]_vars
    /\ WF_vars(SchedulerStep)
    /\ WF_vars(ChildExit)
    /\ WF_vars(InputPoll)
    /\ WF_vars(InputTerminate)
    /\ WF_vars(InputJoin)
    /\ WF_vars(DrawRecv)

\* The session with the frames of the presentation task: one backend (the
\* shell builtin), no loop, targets that succeed.
InitView ==
    /\ cli \in [use_builtin_only : {TRUE}, no_bsd : {FALSE}, no_gnu : {FALSE},
                runs : 0..MaxRuns, loops : {1}, targets : 0..MaxTargets]
    /\ target_exit \in SuccessCodes
    /\ IdleTimeCmd
    /\ IdleMeas
    /\ IdleStats
    /\ IdleCall
    /\ IdleView
    /\ SessionStart

NextView ==
    \/ Next
    \/ DrawTick

SpecView == InitView /\ [][NextView]_vars

\* ------------------------------------------------ cmd.rs alone: a TimeCmd
\* No session runs: its variables keep the values of an unused one.
IdleSession ==
    /\ cli = [use_builtin_only |-> FALSE, no_bsd |-> FALSE, no_gnu |-> FALSE,
              runs |-> 0, loops |-> 1, targets |-> 0]
    /\ target_exit = 0
    /\ SessionStart

\* A TimeCmd of some family was constructed by try_new_with_command.
InitTimeCmd ==
    /\ IdleSession
    /\ IdleCall
    /\ IdleView
    /\ IdleMeas
    /\ IdleStats
    /\ \E type \in {"bsd", "gnu", "builtin"} : tc = NewTimeCmd(type)
    /\ tc_ret = [op |-> "new", val |-> "Ok", seq |-> 0]
    /\ tc_out = "none"

\* The record of a call of method op that returned val.
Called(op, val) == [op |-> op, val |-> val, seq |-> tc_ret.seq + 1]

\* A call of TimeCmd::ready_status.
TcReadyStatus ==
    /\ tc_ret.seq < MaxCalls
    /\ tc' = ready_status(tc)
    /\ tc_ret' = Called("ready_status", tc'.ready_status)
    /\ UNCHANGED <<tc_out, app_vars, meas_vars, stats_vars, fn_vars, view_vars>>

\* A call of TimeCmd::is_finished.
TcIsFinished ==
    /\ tc_ret.seq < MaxCalls
    /\ tc_ret' = Called("is_finished", IF is_finished(tc) THEN "true" ELSE "false")
    /\ UNCHANGED <<tc, tc_out, app_vars, meas_vars, stats_vars, fn_vars, view_vars>>

\* A call of TimeCmd::execute: NotReady, or the report is dropped and the
\* child spawned, which may fail.
TcExecute ==
    /\ tc_ret.seq < MaxCalls
    /\ IF tc.ready_status # "Ready"
       THEN /\ tc_ret' = Called("execute", "NotReady")
            /\ UNCHANGED tc
       ELSE \E spawned \in BOOLEAN :
               IF spawned
               THEN /\ tc' = Executed(tc)
                    /\ tc_ret' = Called("execute", "Ok")
               ELSE /\ tc' = [tc EXCEPT !.meas_report = <<>>]
                    /\ tc_ret' = Called("execute", "SpawnError")
    /\ UNCHANGED <<tc_out, app_vars, meas_vars, stats_vars, fn_vars, view_vars>>

\* A call of TimeCmd::get_report; it has no test of the ready status.
TcGetReport ==
    /\ tc_ret.seq < MaxCalls
    /\ LET r == get_report(tc) IN
          /\ tc' = r.cmd
          /\ tc_ret' = Called("get_report", IF r.err = "none" THEN "Ok" ELSE r.err)
    /\ UNCHANGED <<tc_out, app_vars, meas_vars, stats_vars, fn_vars, view_vars>>

\* A call of TimeCmd::kill.
TcKill ==
    /\ tc_ret.seq < MaxCalls
    /\ tc' = Killed(tc)
    /\ tc_ret' = Called("kill", "Ok")
    /\ UNCHANGED <<tc_out, app_vars, meas_vars, stats_vars, fn_vars, view_vars>>

\* The child of tc exits by itself with some exit code; its diagnostics parse
\* to no entry, or to some, with or without an `Exit status` line.
TcChildExit ==
    /\ tc.process \in {"running", "signalled"}
    /\ \E out \in {"ok", "empty"}, code \in 0..MaxCode,
          line \in {<<>>} \cup {<<v>> : v \in 0..MaxCode} :
          /\ out = "empty" => line = <<>>
          /\ tc.process = "signalled" => code = 0
          /\ tc' = IF tc.process = "signalled"
                   THEN Died(tc, out, line)
                   ELSE [tc EXCEPT !.process = "exited", !.stderr = out,
                                   !.code = <<code>>, !.status_line = line]
          /\ tc_out' = IF tc.job = "selftest" THEN out ELSE tc_out
    /\ UNCHANGED <<tc_ret, app_vars, meas_vars, stats_vars, fn_vars, view_vars>>

NextTimeCmd ==
    \/ TcReadyStatus
    \/ TcIsFinished
    \/ TcExecute
    \/ TcGetReport
    \/ TcKill
    \/ TcChildExit

SpecTimeCmd == InitTimeCmd /\ [][NextTimeCmd]_vars

\* --------------------------------- cmd.rs alone: a formatted measurement
\* Values given to meas_item_unit_value (seconds, bytes, a count or a
\* percentage), each the f64 nearest to its decimal: 0, 0.001, 0.5, 1.5, 90
\* and 4000, and 0.5005, 1.0005, 1.005, 2.0035 and 10.075, whose last
\* decimal is a 5 that the f64 does not reach; and the last f64 below 100,
\* 99.99999999999999, whose log10 is 2.
MeasValues ==
    {Parse(0, 0), Parse(1, 3), Parse(5, 1), Parse(15, 1), Parse(90, 0),
     Parse(4000, 0), Parse(5005, 4), Parse(10005, 4), Parse(1005, 3),
     Parse(20035, 4), Parse(10075, 3),
     F(99, [i \in 1..(MANTISSA_DIGITS - BitLen(99)) |-> 1])}

\* The arguments of one call of the public functions meas_item_name and
\* meas_item_unit_value: any kind, a value and a loop count.
InitMeas ==
    /\ IdleSession
    /\ IdleCall
    /\ IdleView
    /\ IdleTimeCmd
    /\ IdleStats
    /\ item \in [kind : MeasItems, val : MeasValues,
                  loops : 0..MaxLoops]
    /\ text = <<>>

\* meas_item_name and meas_item_unit_value called on these arguments, as
\* the tests of cmd.rs call them; the functions have no precondition.
FormatItem ==
    /\ text = <<>>
    /\ text' = <<[name |-> meas_item_name(item.kind, item.loops),
                  value |-> meas_item_unit_value(item.kind, item.val, item.loops)]>>
    /\ UNCHANGED <<item, app_vars, cmd_vars, stats_vars, fn_vars, view_vars>>

\* The one step of a call: the functions return.
NextMeas == FormatItem

SpecMeas == InitMeas /\ [][NextMeas]_vars

\* ------------------------------------------- stats.rs alone: one Stats
\* Samples given to Stats::new and Stats::add: 0.0, 3.0, 10.0 and a value
\* that is not finite.
SampleValues == {Sample(0), Sample(3), Sample(10), NonFinite}

\* The sequences of at most n samples.
SamplesUpTo(len) == UNION {[1..k -> SampleValues] : k \in 0..len}

InitStats ==
    /\ IdleSession
    /\ IdleCall
    /\ IdleView
    /\ IdleTimeCmd
    /\ IdleMeas
    /\ supplied \in SamplesUpTo(MaxNew)
    /\ stats = new(supplied)

\* Stats::add.
StatsAdd ==
    /\ Len(supplied) < MaxSamples
    /\ \E val \in SampleValues :
          /\ stats' = add(stats, val)
          /\ supplied' = Append(supplied, val)
    /\ UNCHANGED <<app_vars, cmd_vars, meas_vars, fn_vars, view_vars>>

NextStats == StatsAdd

SpecStats == InitStats /\ [][NextStats]_vars

\* ------------------------- stats.rs alone: one Stats, with large samples
\* Samples given to Stats::new and Stats::add: 0.0, 3.0, f64::MAX and a
\* value that is not finite.
LargeSampleValues == {Sample(0), Sample(3), Sample(MAX), NonFinite}

InitLarge ==
    /\ IdleSession
    /\ IdleCall
    /\ IdleView
    /\ IdleTimeCmd
    /\ IdleMeas
    /\ supplied \in UNION {[1..k -> LargeSampleValues] : k \in 0..MaxNew}
    /\ stats = new(supplied)

\* Stats::add.
StatsAddLarge ==
    /\ Len(supplied) < MaxSamples
    /\ \E val \in LargeSampleValues :
          /\ stats' = add(stats, val)
          /\ supplied' = Append(supplied, val)
    /\ UNCHANGED <<app_vars, cmd_vars, meas_vars, fn_vars, view_vars>>

NextLarge == StatsAddLarge

SpecLarge == InitLarge /\ [][NextLarge]_vars

\* ------------------------------ stats.rs and mean.rs alone: bisect_right
\* Ascending vectors of 0.0, 3.0 and 10.0, and the values looked up: the
\* elements, a value below them, one between them and one above them.
VectorValues == {0, 3, 10}
LookedUp == {-1, 0, 1, 3, 10, 20}
AscendingVectors ==
    {s \in UNION {[1..k -> VectorValues] : k \in 0..MaxSamples} :
        \A i \in 1..(Len(s) - 1) : s[i] <= s[i + 1]}

InitBisect ==
    /\ IdleSession
    /\ IdleTimeCmd
    /\ IdleMeas
    /\ IdleStats
    /\ IdleView
    /\ call \in [fn : {"bisect_right"}, sorted : AscendingVectors, x : LookedUp]
    /\ returned = <<>>

\* stats.rs: bisect_right(sorted, x, 0, sorted.len()).
BisectStats ==
    /\ returned = <<>>
    /\ returned' = <<[file |-> "stats.rs",
                      ret |-> Returned(bisect_right(call.sorted, call.x, 0,
                                                    Len(call.sorted)))]>>
    /\ UNCHANGED <<call, app_vars, cmd_vars, meas_vars, stats_vars, view_vars>>

\* mean.rs: bisect_right(sorted, x, 0, sorted.len()).
BisectMean ==
    /\ returned = <<>>
    /\ returned' = <<[file |-> "mean.rs",
                      ret |-> mean_bisect_right(call.sorted, call.x, 0,
                                                Len(call.sorted))]>>
    /\ UNCHANGED <<call, app_vars, cmd_vars, meas_vars, stats_vars, view_vars>>

NextBisect ==
    \/ BisectStats
    \/ BisectMean

SpecBisect == InitBisect /\ [][NextBisect]_vars

\* ----------------------------- cli_args.rs alone: normalized_commands
\* Tokens of the command line: the delimiter --, and c, a, -f, a b, a'b,
\* "a b", 'a b' and -o b, each of which may come first, as a command, or
\* later, as an argument.
Tokens ==
    {delimiters, <<"c">>, <<"a">>, <<"-", "f">>, <<"a", " ", "b">>,
     <<"a", "'", "b">>, <<"\"", "a", " ", "b", "\"">>,
     <<"'", "a", " ", "b", "'">>, <<"-", "o", " ", "b">>}

InitNormalize ==
    /\ IdleSession
    /\ IdleTimeCmd
    /\ IdleMeas
    /\ IdleStats
    /\ IdleView
    /\ call \in [fn : {"normalized_commands"},
                 commands : UNION {[1..k -> Tokens] : k \in 0..MaxTokens}]
    /\ returned = <<>>

\* CliArgs::normalized_commands.
Normalize ==
    /\ returned = <<>>
    /\ returned' = <<normalized_commands(call.commands)>>
    /\ UNCHANGED <<call, app_vars, cmd_vars, meas_vars, stats_vars, view_vars>>

NextNormalize == Normalize

SpecNormalize == InitNormalize /\ [][NextNormalize]_vars

\* ------------------------------------------------------------ properties
\* Positions of the ReportMeasure events in a sequence of events.
ReportPositions(q) == {i \in 1..Len(q) : q[i].type = "ReportMeasure"}
\* The number of ReportMeasure events before position i: the target of i.
TargetOfPosition(q, i) == Cardinality({j \in ReportPositions(q) : j < i})
\* Runs given to backend b in a list of reports.
RunsOn(rs, b) == Cardinality({j \in 1..Len(rs) : rs[j].backend = b})
\* Some child process spawned by the session is running.
SomeChildRunning ==
    \/ orphan = "running"
    \/ cmd # NoCmd /\ cmd.process = "running"
    \/ \E i \in 1..Len(commands) : commands[i].process \in {"running", "signalled"}
\* Some measurement child has been spawned.
SomeRunStarted == \E i \in 1..Len(commands) : commands[i].job = "measure"
\* Every run of every target was executed and its report collected and sent.
AllCollected ==
    /\ Cardinality(ReportPositions(sent)) = cli.targets
    /\ \A i \in ReportPositions(sent) : Len(sent[i].reports) = cli.runs

\* C1: when run() ends, the exit status is the success status exactly when
\* discovery yielded a usable backend, no Quit was observed and every run of
\* every target was executed and collected; otherwise it is non-zero.
C1_ExitStatus ==
    ipc = "exit" =>
        /\ exit_status = <<ExitSuccess>> <=>
              (commands # <<>> /\ quit_seen = "none" /\ run_error = "none"
               /\ AllCollected)
        /\ exit_status # <<ExitSuccess>> => exit_status[1] > 0
C1_Witness ==
    /\ ipc = "exit"
    /\ exit_status = <<ExitSuccess>>
    /\ cli.targets >= 2
    /\ cli.runs >= 2
    /\ inbox > 0

\* C2: every ReportMeasure sent carries exactly `runs` reports of its own
\* target, one per run index in run order, whatever the loop count is.
C2_ReportsComplete ==
    \A i \in ReportPositions(sent) :
        /\ Len(sent[i].reports) = cli.runs
        /\ \A j \in 1..Len(sent[i].reports) :
              /\ sent[i].reports[j].run = j - 1
              /\ sent[i].reports[j].target = TargetOfPosition(sent, i)
              /\ sent[i].reports[j].execs = cli.loops
C2_Witness ==
    /\ cli.loops > 1
    /\ cli.runs >= 2
    /\ Cardinality(ReportPositions(sent)) = 1
    /\ target_index = 1
    /\ run_error # "none"

\* C3: run n of every target is executed on the backend at position n mod k
\* of the discovered list, so within one target the numbers of runs of any
\* two backends differ by at most one.
C3_RoundRobin ==
    /\ upc \in {"loop", "wait"} => time_cmd = (n % Len(commands)) + 1
    /\ \A j \in 1..Len(model.current_reports) :
          model.current_reports[j].backend = ((j - 1) % Len(commands)) + 1
    /\ \A i \in ReportPositions(sent) :
          /\ \A j \in 1..Len(sent[i].reports) :
                sent[i].reports[j].backend = ((j - 1) % Len(commands)) + 1
          /\ \A a, b \in 1..Len(commands) :
                RunsOn(sent[i].reports, a) - RunsOn(sent[i].reports, b) <= 1
C3_Witness ==
    /\ Len(commands) = 2
    /\ \E i \in ReportPositions(sent) :
          /\ Len(sent[i].reports) >= 3
          /\ sent[i].reports[3].backend = 1
          /\ sent[i].reports[3].target = 1

\* The events handled by view_app, the final Quit left out.
Observed == SelectSeq(observed, IsSchedMsg)
\* Number of leading Warn events of a sequence of events.
LeadingWarns(q) == Cardinality({i \in 1..Len(q) : \A j \in 1..i : q[j].type = "Warn"})

\* C4: view_app observes the events in the order sent: the Warn events, then
\* per target in order PrintH, StartMeasure, ReportMeasure.
C4_EventOrder ==
    LET w == LeadingWarns(Observed) IN
    /\ Len(Observed) <= Len(sent)
    /\ \A i \in 1..Len(Observed) : Observed[i] = sent[i]
    /\ \A i \in 1..Len(observed) : observed[i].type = "Quit" => i = Len(observed)
    /\ \A i \in (w + 1)..Len(Observed) :
          LET p == i - w - 1 IN
          /\ p % 3 = 0 => Observed[i] = MsgPrintH(p \div 3)
          /\ p % 3 = 1 => Observed[i].type = "StartMeasure"
          /\ p % 3 = 2 => /\ Observed[i].type = "ReportMeasure"
                          /\ \A j \in 1..Len(Observed[i].reports) :
                                Observed[i].reports[j].target = p \div 3
C4_Witness ==
    /\ LeadingWarns(Observed) >= 1
    /\ Cardinality(ReportPositions(Observed)) >= 2
    /\ dpc = "done"

\* The scheduler returned because its tick wait received Quit during a run.
QuitInRun == upc = "done" /\ quit_seen = "run" /\ running

\* C5: a Quit received by the tick wait during a run: kill() is called on
\* that run's backend, run_app returns failure, no further run is started
\* and no ReportMeasure is sent for the interrupted target.
C5_QuitKills ==
    QuitInRun =>
        /\ kills = {time_cmd}
        /\ ret = RetQuit
        /\ \A i \in 1..Len(commands) : commands[i].process # "running"
        /\ Len(model.current_reports) = n
        /\ Cardinality(ReportPositions(sent)) = target_index
        /\ \A i \in ReportPositions(sent) :
              \A j \in 1..Len(sent[i].reports) :
                 sent[i].reports[j].target < target_index
C5_Witness ==
    /\ QuitInRun
    /\ commands[time_cmd].process = "killed"
    /\ target_index = 1
    /\ n = 1
    /\ ipc = "exit"

\* C6: a Quit delivered while a measurement child is executing: the session
\* exits with a non-success status and no ReportMeasure is sent for the
\* target being measured.
C6_QuitMidRun ==
    quit_run # -1 =>
        /\ ipc = "exit" => exit_status # <<ExitSuccess>>
        /\ Cardinality(ReportPositions(sent)) <= quit_run

\* C7: when Quit is observed during discovery, no child process spawned by
\* the session is left running once discovery has returned.
C7_NoOrphan ==
    (upc = "done" /\ quit_seen = "discovery") => ~SomeChildRunning

\* C8: after a Quit delivered during discovery, no further candidate is
\* constructed, no benchmark run is started and the session ends in failure.
C8_QuitAbortsDiscovery ==
    [][quit_disc =>
          /\ Len(constructed') <= Len(constructed)
          /\ ~SomeRunStarted'
          /\ (ipc' = "exit" => exit_status' # <<ExitSuccess>>)]_vars

\* C9: an error of execute or of the report collection during a run makes
\* run_app return a failure code with the error message; no later run is
\* started and no ReportMeasure is sent for that target.
C9_RunErrorReturned ==
    run_error # "none" =>
        /\ upc = "done"
        /\ ret.code = "FAILURE"
        /\ ret.msg # "none"
        /\ ~SomeChildRunning
        /\ Cardinality(ReportPositions(sent)) = target_index

\* prepare_time_commands has just returned a list.
DiscoveryReturned == upc = "check"
WasConstructed(type) == \E i \in 1..Len(constructed) : constructed[i].cmd_type = type

\* C10: a builtin candidate is constructed exactly when the list is empty
\* after the requested BSD and GNU families were tried; with a usable BSD or
\* GNU candidate no builtin is probed or returned; BSD comes before GNU.
C10_BuiltinLastResort ==
    /\ WasConstructed("builtin") =>
          /\ ~HasType(commands, "bsd") /\ ~HasType(commands, "gnu")
          /\ ~cli.use_builtin_only /\ ~cli.no_bsd => WasConstructed("bsd")
          /\ ~cli.use_builtin_only /\ ~cli.no_gnu => WasConstructed("gnu")
    /\ (DiscoveryReturned /\ ~HasType(commands, "bsd") /\ ~HasType(commands, "gnu"))
          => WasConstructed("builtin")
    /\ (HasType(commands, "bsd") \/ HasType(commands, "gnu")) =>
          ~HasType(commands, "builtin")
    /\ \A i, j \in 1..Len(commands) :
          i < j => commands[i].cmd_type = "bsd" /\ commands[j].cmd_type = "gnu"
C10_Witness ==
    /\ DiscoveryReturned
    /\ WasConstructed("bsd")
    /\ WasConstructed("gnu")
    /\ HasType(commands, "builtin")

\* prepare_time_commands returned a list: discovery was not aborted by Quit.
DiscoveryDone == ~InDiscovery /\ ~DiscoveryReturned /\ quit_seen # "discovery"
\* Number of candidates of one family constructed by discovery.
Candidates(f) == Cardinality({i \in 1..Len(constructed) : constructed[i].cmd_type = f})

\* C11, as stated: when neither the BSD nor the GNU family yields a usable
\* candidate, the session fails with the `not found` diagnostic and a
\* non-zero exit status.
C11_NoFamilyFails ==
    (DiscoveryDone /\ ~cli.use_builtin_only
        /\ ~HasType(commands, "bsd") /\ ~HasType(commands, "gnu")) =>
        /\ ret.code = "FAILURE"
        /\ ret.msg = "time command not found"
        /\ ipc = "exit" => exit_status # <<ExitSuccess>>

\* C11, amended: the session fails with the `not found` diagnostic and a
\* non-zero exit status exactly when discovery returns an empty list, that
\* is when the builtin candidates, tried last, are unusable as well; nothing
\* is sent to view_app and no run is started.
C11_NotFound ==
    /\ ret.msg = "time command not found" <=> (DiscoveryDone /\ commands = <<>>)
    /\ (DiscoveryDone /\ commands = <<>>) =>
          /\ ret.code = "FAILURE"
          /\ upc = "done"
          /\ WasConstructed("builtin")
          /\ sent = <<>>
          /\ ~SomeRunStarted
          /\ ipc = "exit" => exit_status = <<ExitFailure>>
C11_Witness ==
    /\ ipc = "exit"
    /\ ret.msg = "time command not found"
    /\ WasConstructed("bsd")
    /\ WasConstructed("gnu")
    /\ exit_status = <<ExitFailure>>

\* A family is requested: not opted out, and builtin-only is not set.
Requested(f) ==
    /\ ~cli.use_builtin_only
    /\ f = "bsd" => ~cli.no_bsd
    /\ f = "gnu" => ~cli.no_gnu
WarnCount(q, f) == Cardinality({i \in 1..Len(q) : q[i] = MsgWarn(f)})

\* C12: when discovery returns a non-empty list, one Warn is sent for each
\* requested family without a candidate in the list, before the first
\* header; the session then benchmarks and does not fail for that reason.
C12_MissingFamilyWarns ==
    (DiscoveryDone /\ commands # <<>>) =>
        /\ \A f \in {"bsd", "gnu"} :
              WarnCount(sent, f) =
                 IF Requested(f) /\ ~HasType(commands, f) THEN 1 ELSE 0
        /\ \A i \in 1..Len(sent) :
              sent[i].type = "Warn" => i <= LeadingWarns(sent)
        /\ ret.msg # "time command not found"
        /\ (upc = "done" /\ quit_seen = "none" /\ run_error = "none") =>
              /\ ret.code = "SUCCESS"
              /\ AllCollected
              /\ ipc = "exit" => exit_status = <<ExitSuccess>>
C12_Witness ==
    /\ ipc = "exit"
    /\ exit_status = <<ExitSuccess>>
    /\ WarnCount(sent, "bsd") = 1
    /\ WarnCount(sent, "gnu") = 1
    /\ cli.targets >= 1
    /\ cli.runs >= 1
    /\ observed[1].type = "Warn"

\* C13, as stated: discovery constructs at most three candidates of each
\* family.
C13_ThreeCandidates ==
    \A f \in {"bsd", "gnu", "builtin"} : Candidates(f) <= 3

\* C13, amended: discovery constructs at most two BSD candidates, at most
\* four GNU candidates (the configured one and three fallback variants) and
\* at most two builtin candidates, no variant twice: at most eight self-test
\* spawns in all.
C13_BoundedCandidates ==
    /\ Candidates("bsd") <= 2
    /\ Candidates("gnu") <= 4
    /\ Candidates("builtin") <= 2
    /\ Len(constructed) <= 8
    /\ \A i, j \in 1..Len(constructed) :
          constructed[i] = constructed[j] => i = j
    /\ \A i \in 1..Len(constructed) :
          constructed[i].cmd_type # "gnu" => ~constructed[i].tm
C13_Witness ==
    /\ Candidates("bsd") = 2
    /\ Candidates("gnu") = 4
    /\ Candidates("builtin") = 2
    /\ DiscoveryReturned

\* The step is a call of TimeCmd::ready_status.
ReadyStatusCalled == tc_ret'.seq # tc_ret.seq /\ tc_ret'.op = "ready_status"

\* C14: the ready status of a backend changes only in ready_status(), from
\* Checking to Ready or to Error, Error exactly when the diagnostics of the
\* finished self-test parse to no entry; once it is Ready or Error, every
\* ready_status() call returns it and leaves the backend unchanged, whatever
\* execute, is_finished, get_report and kill calls are made in between.
C14_ReadyStatusStable ==
    [][/\ tc'.ready_status # tc.ready_status =>
             /\ tc.ready_status = "Checking"
             /\ tc'.ready_status \in {"Ready", "Error"}
             /\ ReadyStatusCalled
             /\ is_finished(tc)
       /\ tc'.ready_status = "Error" => tc_out' = "empty"
       /\ tc'.ready_status = "Ready" => tc_out' = "ok"
       /\ (ReadyStatusCalled /\ tc.ready_status # "Checking") =>
             /\ tc' = tc
             /\ tc_ret'.val = tc.ready_status]_vars
\* C14, as the code has it: the ready status changes only in ready_status(),
\* from Checking to Ready or to Error once the self-test has finished, Error
\* exactly when what is left to read of its diagnostics parses to no entry:
\* it wrote none that parse, or a get_report() made before has read them;
\* once it is Ready or Error, every ready_status() call returns it and
\* leaves the backend unchanged.
C14_ReadyStatusJudged ==
    [][/\ tc'.ready_status # tc.ready_status =>
             /\ tc.ready_status = "Checking"
             /\ tc'.ready_status \in {"Ready", "Error"}
             /\ ReadyStatusCalled
             /\ is_finished(tc)
             /\ tc'.ready_status = "Error" <=> tc.stderr = "empty"
             /\ tc'.ready_status = "Error" <=>
                    (tc_out = "empty" \/ tc.meas_report # <<>>)
       /\ (ReadyStatusCalled /\ tc.ready_status # "Checking") =>
             /\ tc' = tc
             /\ tc_ret'.val = tc.ready_status]_vars
\* A backend whose self-test wrote diagnostics that parse was judged Error
\* after a get_report(), and a later ready_status() returned Error again.
C14_Witness ==
    /\ tc_ret.op = "ready_status"
    /\ tc_ret.val = "Error"
    /\ tc_ret.seq >= 3
    /\ tc_out = "ok"
    /\ tc.meas_report # <<>>
    /\ tc.job = "selftest"

\* C15: the ExitStatus entry of a collected report is the exit code of the
\* child process of that run, for every family; the value of a GNU
\* `Exit status` line never becomes the ExitStatus of the report.
C15_ExitStatusFromOs ==
    tc.meas_report # <<>> => tc.meas_report[1].ExitStatus = OsExitCode(tc)

\* The reports pushed so far and those sent in ReportMeasure events.
AllReports ==
    {model.current_reports[j] : j \in 1..Len(model.current_reports)}
    \cup UNION {{sent[i].reports[j] : j \in 1..Len(sent[i].reports)} :
                   i \in ReportPositions(sent)}

\* C16: with a target that exits non-zero, every report records the exit
\* code of the target as ExitStatus; in the printed report the success count
\* plus the failure count is `runs`; and without Quit and without a run
\* error every run of every target is executed and the session ends with
\* the success exit status.
C16_FailureIsData ==
    target_exit # 0 =>
        /\ \A r \in AllReports : r.exit_status = target_exit
        /\ \A i \in ReportPositions(observed) :
              LET p == PrintExitStatus(ExitSamples(observed[i].reports)) IN
              p.success + p.failure = cli.runs
        /\ (upc = "done" /\ commands # <<>> /\ quit_seen = "none"
               /\ run_error = "none") =>
              /\ ret.code = "SUCCESS"
              /\ AllCollected
              /\ ipc = "exit" => exit_status = <<ExitSuccess>>

\* The kinds that C17 names as scaled by the loop count.
LoopKinds ==
    {"Real", "User", "Sys", "MajorPageFault", "MinorPageFault",
     "VoluntaryCtxSwitch", "InvoluntaryCtxSwitch", "Swap", "BlockInput",
     "BlockOutput", "MsgSend", "MsgRecv", "SignalRecv"}

\* C17: with a loop count M > 1 the name carries the /M tag and the value
\* formatted is val / M exactly for the time, page-fault, context-switch,
\* swap, block, message and signal kinds; every other kind, and every kind
\* with M <= 1, has no tag and the value formatted is val.
C17_LoopDivision ==
    text # <<>> =>
        LET M == item.loops
            divided == item.kind \in LoopKinds /\ M > 1 IN
        /\ text[1].name.tag = IF divided THEN <<M>> ELSE <<>>
        /\ text[1].value =
              IF divided
              THEN meas_item_unit_value(item.kind, Over(item.val, M), 1)
              ELSE meas_item_unit_value(item.kind, item.val, 1)
C17_Witness ==
    /\ text # <<>>
    /\ item.kind = "SignalRecv"
    /\ item.loops = MaxLoops
    /\ item.loops > 1
    /\ text[1].name.tag = <<item.loops>>
    /\ text[1].value # meas_item_unit_value(item.kind, item.val, 1)

\* The finite samples supplied so far, and the occurrences of a value.
FiniteSupplied == SelectSeq(supplied, is_finite)
Occurrences(s, v) == Cardinality({i \in DOMAIN s : s[i] = v})
Ascending(s) == \A i \in 1..(Len(s) - 1) : s[i] <= s[i + 1]

\* After Stats::new and after every add: sorted_samples is ascending, holds
\* the finite samples supplied so far with their multiplicities, and
\* nan_count counts the other samples supplied.
SortedFiniteSamples ==
    /\ Ascending(stats.sorted_samples)
    /\ Len(stats.sorted_samples) = Len(FiniteSupplied)
    /\ \A v \in SampleValues :
          is_finite(v) => Occurrences(stats.sorted_samples, v.val)
                          = Occurrences(supplied, v)
    /\ stats.nan_count = Len(supplied) - Len(FiniteSupplied)

\* An add of a value that is not finite changes nan_count only.
NonFiniteAddCountsOnly ==
    (supplied' = Append(supplied, NonFinite))
        => stats' = [stats EXCEPT !.nan_count = stats.nan_count + 1]

\* C18: after Stats::new and after any sequence of add calls sorted_samples
\* is ascending and holds exactly the finite samples supplied so far, as a
\* multiset, nan_count is the number of non-finite samples supplied, and an
\* add of a non-finite value changes nan_count and nothing else.
C18_SortedFiniteSamples ==
    []SortedFiniteSamples /\ [][NonFiniteAddCountsOnly]_vars

\* C18 happens: samples supplied out of order, one of them repeated, have
\* been sorted, and the last sample supplied was not finite.
C18_Witness ==
    /\ Len(supplied) = MaxSamples
    /\ supplied[Len(supplied)] = NonFinite
    /\ stats.nan_count = 1
    /\ supplied[1] = Sample(10)
    /\ supplied[2] = Sample(3)
    /\ supplied[3] = Sample(10)
    /\ supplied[4] = Sample(0)
    /\ stats.sorted_samples = <<0, 3, 10, 10>>

\* The median of an ascending sequence, the sum of the absolute deviations
\* from it, and the samples outside median -+ 3 * 1.4826 * mad, where mad is
\* that sum over the length: x is below the lower limit when
\* 10000 * len * (median - x) > 3 * 14826 * deviations.
MiddleOf(s) == s[Len(s) \div 2 + 1]
Deviations(s) == Sum([i \in DOMAIN s |-> Abs(s[i] - MiddleOf(s))])
Outside(s) ==
    {i \in DOMAIN s :
        \/ 10000 * Len(s) * (MiddleOf(s) - s[i]) > 3 * 14826 * Deviations(s)
        \/ 10000 * Len(s) * (s[i] - MiddleOf(s)) > 3 * 14826 * Deviations(s)}

\* C19: after every insertion of a finite sample outlier_count is the
\* number of samples below lcl or above ucl, lcl and ucl being the median
\* minus and plus 3 * 1.4826 * mad, the median the element at index
\* floor(count / 2) and mad the mean absolute deviation from the median; a
\* sample equal to a limit is not counted.
C19_OutlierCount ==
    stats.sorted_samples # <<>> =>
        LET s == stats.sorted_samples IN
        /\ Same(stats.mad, F64(Deviations(s), Len(s), 0))
        /\ Same(stats.lcl, F64(10000 * Len(s) * MiddleOf(s) - 3 * 14826 * Deviations(s),
                               10000 * Len(s), 0))
        /\ Same(stats.ucl, F64(10000 * Len(s) * MiddleOf(s) + 3 * 14826 * Deviations(s),
                               10000 * Len(s), 0))
        /\ stats.outlier_count = Cardinality(Outside(s))

\* C19 happens: 10.0 was inserted after four samples of 3.0 and lies above
\* the upper limit 3.0 + 3 * 1.4826 * 1.4.
C19_Witness ==
    /\ supplied = <<Sample(3), Sample(3), Sample(3), Sample(3), Sample(10)>>
    /\ stats.sorted_samples = <<3, 3, 3, 3, 10>>
    /\ Same(stats.mad, F64(7, 5, 0))
    /\ stats.outlier_count = 1

\* No sample lies outside [lcl, ucl].
NoneOutside ==
    \A i \in DOMAIN stats.sorted_samples :
        /\ Leq(stats.lcl, Num(stats.sorted_samples[i]))
        /\ Leq(Num(stats.sorted_samples[i]), stats.ucl)

\* C20: whenever no sample lies outside [lcl, ucl], the mean, the standard
\* deviation, the minimum, the maximum, the median and the count excluding
\* outliers equal the ones of all the samples.
C20_NoOutlierIdentity ==
    NoneOutside =>
        /\ Same(stats.mean_excluding_outlier, stats.mean)
        /\ SameRoot(stats.stdev_excluding_outlier, stats.stdev)
        /\ min_excluding_outlier(stats) = min(stats)
        /\ max_excluding_outlier(stats) = max(stats)
        /\ median_excluding_outlier(stats) = median(stats)
        /\ count_excluding_outlier(stats) = count(stats)

\* C20 happens: five samples of three different values, all of them within
\* the limits 3.0 -+ 3 * 1.4826 * 2.0.
C20_Witness ==
    /\ NoneOutside
    /\ stats.sorted_samples = <<0, 3, 3, 3, 10>>
    /\ Same(stats.mad, Num(2))
    /\ min_excluding_outlier(stats) = 0
    /\ max_excluding_outlier(stats) = 10
    /\ median_excluding_outlier(stats) = 3
    /\ count_excluding_outlier(stats) = 5

\* C21: for every non-empty set of finite samples stdev_excluding_outlier
\* <= stdev and min <= mean_excluding_outlier <= max.
C21_ExcludingWithinAll ==
    stats.sorted_samples # <<>> =>
        /\ Leq(stats.stdev_excluding_outlier.sqrt, stats.stdev.sqrt)
        /\ Leq(Num(min(stats)), stats.mean_excluding_outlier)
        /\ Leq(stats.mean_excluding_outlier, Num(max(stats)))

\* The samples of a sequence in an order that depends on the multiset only:
\* the non-finite ones first, then the finite ones from the largest down.
Repeated(x, k) == [i \in 1..k |-> x]
RECURSIVE Downwards(_, _)
Downwards(s, vals) ==
    IF vals = {} THEN <<>>
    ELSE LET top == CHOOSE v \in vals : \A w \in vals : w <= v IN
         Repeated(Sample(top), Occurrences(s, Sample(top)))
             \o Downwards(s, vals \ {top})
Rearranged(s) ==
    Repeated(NonFinite, Occurrences(s, NonFinite))
        \o Downwards(s, {s[i].val : i \in {j \in DOMAIN s : is_finite(s[j])}})

\* C22: whatever the order in which a multiset of samples is given to
\* Stats::new, or to Stats::new and then one at a time to add, the sorted
\* sequence and every derived statistic are the same: they are the ones
\* Stats::new gives for the samples in the order supplied and for the same
\* samples rearranged.
C22_OrderIndependent ==
    /\ stats = new(supplied)
    /\ stats = new(Rearranged(supplied))

\* C22 happens: five samples were supplied neither in ascending nor in
\* descending order, one of them not finite, at most MaxNew of them to
\* Stats::new.
C22_Witness ==
    /\ supplied = <<Sample(3), NonFinite, Sample(10), Sample(0), Sample(3)>>
    /\ Rearranged(supplied)
           = <<NonFinite, Sample(10), Sample(3), Sample(3), Sample(0)>>
    /\ stats.sorted_samples = <<0, 3, 3, 10>>
    /\ stats = new(Rearranged(supplied))

\* A command begins at a token that is not the delimiter and that comes
\* first, after a delimiter, or after a token taken as a whole command.
RECURSIVE Begins(_, _)
Begins(args, i) ==
    /\ args[i] # delimiters
    /\ \/ i = 1
       \/ args[i - 1] = delimiters
       \/ Begins(args, i - 1) /\ contains(args[i - 1], " ")

\* The argument tokens of the command that begins at token i: the tokens
\* after it, up to the next delimiter.
ArgumentsOf(args, i) ==
    LET stop == {j \in (i + 1)..Len(args) : args[j] = delimiters} IN
    SubSeq(args, i + 1, IF stop = {} THEN Len(args) ELSE First(stop) - 1)

\* The target commands of a command line under a quoting policy Quote: one
\* for each token that begins a command, in their order.  A first token
\* with a space is the whole command; any other first token is followed by
\* its argument tokens, each as Quote gives it, with a space between them.
CommandAt(args, i, Quote(_)) ==
    IF contains(args[i], " ") THEN args[i]
    ELSE join(<<args[i]>>
                  \o [k \in 1..Len(ArgumentsOf(args, i)) |->
                         Quote(ArgumentsOf(args, i)[k])],
              <<" ">>)
CommandsUnder(args, Quote(_)) ==
    LET begin == {i \in 1..Len(args) : Begins(args, i)}
        nth(k) == CHOOSE i \in begin :
                      Cardinality({j \in begin : j < i}) = k - 1
    IN  [k \in 1..Cardinality(begin) |-> CommandAt(args, nth(k), Quote)]

\* An argument left bare when it has neither a space nor a leading '-', and
\* wrapped in single quotes with its single quotes escaped otherwise.
BareOrQuoted(str) ==
    IF ~contains(str, " ") /\ ~starts_with(str, "-") THEN str
    ELSE <<"'">> \o replace(str, "'", <<"\\", "'">>) \o <<"'">>

\* C24: in every normalized target command an argument token that contains
\* neither a space nor a leading '-' is left bare, and every other argument
\* token is wrapped in single quotes with its single quotes escaped.
C24_BareOrQuoted ==
    returned # <<>> =>
        returned[1] = CommandsUnder(call.commands, BareOrQuoted)

\* An argument left as it is when it starts with '-' or starts and ends
\* with a double quote or with a single quote, and wrapped in single quotes
\* with a backslash before each of its single quotes otherwise.
AsIsOrQuoted(str) ==
    IF \/ str[1] = "-"
       \/ str[1] = "\"" /\ str[Len(str)] = "\""
       \/ str[1] = "'" /\ str[Len(str)] = "'"
    THEN str
    ELSE <<"'">>
             \o join([i \in DOMAIN str |->
                         IF str[i] = "'" THEN <<"\\", "'">> ELSE <<str[i]>>],
                     <<>>)
             \o <<"'">>

\* C24, amended: in every normalized target command, of a line of one or
\* of several commands, an argument token that starts with '-' or is already
\* quoted is left as it is, and every other argument token, with or without
\* spaces, is wrapped in single quotes with its single quotes escaped; the
\* first token of a command is not quoted, and a first token with a space is
\* the whole command.
C24_QuotedUnlessFlag ==
    returned # <<>> =>
        returned[1] = CommandsUnder(call.commands, AsIsOrQuoted)

\* C24 happens: c a'b 'a b' -- "a b", the last token being a b without the
\* quotes, was normalized to the commands c 'a\'b' 'a b' and a b.
C24_Witness ==
    /\ call.fn = "normalized_commands"
    /\ call.commands = <<<<"c">>, <<"a", "'", "b">>,
                         <<"'", "a", " ", "b", "'">>, delimiters,
                         <<"a", " ", "b">>>>
    /\ returned = <<<< <<"c", " ", "'", "a", "\\", "'", "b", "'", " ",
                         "'", "a", " ", "b", "'">>,
                       <<"a", " ", "b">> >>>>

\* C23: if every spawned child eventually exits, every session terminates:
\* the scheduler finishes, the input task then sends Quit to the
\* presentation task, the presentation task exits and run() returns.
C23_Terminates == <>(ipc = "exit")

\* C25: the input task's send of Quit to the scheduler never fails, also
\* when the cancel key is read after the scheduler has finished and dropped
\* its receiver: the input task does not panic at the unwrap of the send.
C25_QuitSendSucceeds == ipc # "hung"

\* The position bisect_right is to return: the elements before it are <= x
\* and the elements from it on are > x.
RightOf(sorted, x, index) ==
    /\ index \in 0..Len(sorted)
    /\ \A j \in 1..index : sorted[j] <= x
    /\ \A j \in (index + 1)..Len(sorted) : sorted[j] > x

\* C30: in stats.rs and in mean.rs, bisect_right(sorted, x, 0, sorted.len())
\* returns for every ascending vector and every finite x, without indexing
\* outside the vector, the position after the last element <= x.
C30_BisectRight ==
    returned # <<>> =>
        /\ ~returned[1].ret.panic
        /\ RightOf(call.sorted, call.x, returned[1].ret.val)

\* C26: whenever the presentation task draws progress, the snapshot it read
\* describes one target: the run index is at most the number of reports
\* accumulated, which is at most the run index plus one.
C26_SnapshotOneTarget ==
    frame # <<>> =>
        /\ frame[1].current_run <= frame[1].reports
        /\ frame[1].reports <= frame[1].current_run + 1

\* C29: whenever the presentation task draws progress, the run index of the
\* snapshot is below its number of runs, and the ratio of the gauge is a
\* number of [0, 1).
C29_RunBelowMax ==
    frame # <<>> =>
        /\ frame[1].current_run < frame[1].current_max
        /\ Leq(Num(0), frame[1].ratio)
        /\ ~Leq(Num(1), frame[1].ratio)
        /\ ~IsNaN(frame[1].ratio)

\* C27: once the presentation task has handled Quit, it has handled every
\* event the scheduler sent, in the order of sending, and Quit last: none is
\* left in the channel.
C27_HandledBeforeQuit ==
    dpc = "done" =>
        /\ observed = Append(sent, MsgQuit)
        /\ draw_q = <<>>
\* The presentation task has exited after the report of the last target.
C27_Witness ==
    /\ dpc = "done"
    /\ sent # <<>>
    /\ sent[Len(sent)].type = "ReportMeasure"
    /\ observed[Len(observed) - 1].type = "ReportMeasure"

\* The number of child processes of the session that are running: the
\* candidate being probed, the children of the usable backends, and a
\* child whose handle was dropped.
RunningChildren ==
    Cardinality({i \in 1..Len(commands) :
                    commands[i].process \in {"running", "signalled"}})
    + (IF cmd # NoCmd /\ cmd.process = "running" THEN 1 ELSE 0)
    + (IF orphan = "running" THEN 1 ELSE 0)

\* C28: at every moment at most one child process of the session is
\* running: none when a candidate is about to be constructed, none when a
\* run is about to be spawned, and no self-test once a run was spawned.
C28_OneChildRunning ==
    /\ RunningChildren <= 1
    /\ upc = "construct" => RunningChildren = 0
    /\ (upc = "loop" /\ ~running) => RunningChildren = 0
    /\ SomeRunStarted =>
           /\ cmd = NoCmd
           /\ \A i \in 1..Len(commands) :
                  commands[i].process \in {"running", "signalled"} =>
                      commands[i].job = "measure"
\* The child of a second or later run is running, the backends being two
\* or more.
C28_Witness ==
    /\ Len(commands) >= 2
    /\ n >= 1
    /\ upc \in {"wait", "loop"}
    /\ running
    /\ commands[time_cmd].process = "running"
    /\ RunningChildren = 1

TypeOK ==
    /\ upc \in {"construct", "probe", "disc_wait", "check", "target_head",
                "start_measure", "run_head", "loop", "wait", "done", "panicked"}
    /\ ipc \in {"poll", "terminate", "join", "exit", "hung"}
    /\ dpc \in {"loop", "done", "panicked"}
    /\ inbox \in 0..MaxQuit
    /\ exit_status \in {<<>>, <<ExitSuccess>>, <<ExitFailure>>, <<ExitPanic>>}

====
